---- MODULE Spec2Model ----
(***************************************************************************)
(* A model of the go-fake-useragent generator: the version-acquisition     *)
(* pipeline of NewGenerator (disk cache, the race of the two fetchers, the *)
(* approximation), the disk cache file, and the calls that read the        *)
(* version set (Get, GetHeaders, GetCrawlerHeaders, GetVersions).          *)
(*                                                                         *)
(* Strings are sequences of one-character strings, so that formatting and  *)
(* parsing are computed character by character.  Instants and durations    *)
(* are whole hours; instants count from the anchor 2025-05-14 00:00 UTC.   *)
(***************************************************************************)
EXTENDS Integers, Sequences, FiniteSets, TLC

------------------------------------------------------------------------------
(* Bounds of the model *)

\* clock steps a behaviour may take
MaxTicks == 1
\* constructions of a generator on the same cache path in one behaviour
MaxRuns == 2

\* hours per clock step
TickHours == 24
\* the dates given to approximateVersionForDate lie at most this many days from the anchor
ApproxDays == 150

------------------------------------------------------------------------------
(* Program constants *)

versionsToKeepFromGoogle == 45
versionsToKeepFromMS == 20

\* "Mozilla/5.0 (Windows NT 10.0; Win64; x64) AppleWebKit/537.36 (KHTML, like Gecko) Chrome/%s Safari/537.36"
chromeUATemplate ==
  <<"M","o","z","i","l","l","a","/","5",".","0"," ","(","W","i","n","d","o","w","s"," ","N","T",
    " ","1","0",".","0",";"," ","W","i","n","6","4",";"," ","x","6","4",")"," ","A","p","p","l",
    "e","W","e","b","K","i","t","/","5","3","7",".","3","6"," ","(","K","H","T","M","L",","," ",
    "l","i","k","e"," ","G","e","c","k","o",")"," ","C","h","r","o","m","e","/","%","s"," ","S",
    "a","f","a","r","i","/","5","3","7",".","3","6">>

\* the Chrome template followed by " Edg/%s"
edgeUATemplate ==
  <<"M","o","z","i","l","l","a","/","5",".","0"," ","(","W","i","n","d","o","w","s"," ","N","T",
    " ","1","0",".","0",";"," ","W","i","n","6","4",";"," ","x","6","4",")"," ","A","p","p","l",
    "e","W","e","b","K","i","t","/","5","3","7",".","3","6"," ","(","K","H","T","M","L",","," ",
    "l","i","k","e"," ","G","e","c","k","o",")"," ","C","h","r","o","m","e","/","%","s"," ","S",
    "a","f","a","r","i","/","5","3","7",".","3","6"," ","E","d","g","/","%","s">>

------------------------------------------------------------------------------
(* Strings *)

DigitChar == <<"0","1","2","3","4","5","6","7","8","9">>

\* a byte that is not valid UTF-8, and the rune U+FFFD that replaces it
InvalidByte == "\\xff"
ReplacementChar == "\\ufffd"

Min(a, b) == IF a < b THEN a ELSE b

RECURSIVE Digits(_)
Digits(n) ==
  IF n < 10 THEN <<DigitChar[n + 1]>>
  ELSE Digits(n \div 10) \o <<DigitChar[(n % 10) + 1]>>

\* the verb %d of fmt on an int
Itoa(n) == IF n < 0 THEN <<"-">> \o Digits(-n) ELSE Digits(n)

\* the least element of a non-empty set of integers
Least(S) == CHOOSE i \in S : \A j \in S : i <= j

\* fmt.Sprintf restricted to the verb %s: each "%s" takes the next argument
RECURSIVE Sprintf(_, _)
Sprintf(format, args) ==
  LET verbs == {i \in 1..(Len(format) - 1) : format[i] = "%" /\ format[i + 1] = "s"} IN
  IF verbs = {} \/ args = <<>> THEN format
  ELSE LET i == Least(verbs) IN
       SubSeq(format, 1, i - 1) \o Head(args)
         \o Sprintf(SubSeq(format, i + 2, Len(format)), Tail(args))

HasPrefix(s, p) == Len(s) >= Len(p) /\ SubSeq(s, 1, Len(p)) = p
HasSuffix(s, p) == Len(s) >= Len(p) /\ SubSeq(s, Len(s) - Len(p) + 1, Len(s)) = p
TrimPrefix(s, p) == IF HasPrefix(s, p) THEN SubSeq(s, Len(p) + 1, Len(s)) ELSE s
TrimSuffix(s, p) == IF HasSuffix(s, p) THEN SubSeq(s, 1, Len(s) - Len(p)) ELSE s

\* strings.Contains, for a non-empty p
Contains(s, p) ==
  \E i \in 1..(Len(s) - Len(p) + 1) : s[i] = p[1] /\ SubSeq(s, i, i + Len(p) - 1) = p

------------------------------------------------------------------------------
(* Approximator *)

\* conversion of a float to int: truncation toward zero (a / b, b > 0)
TruncDiv(a, b) == IF a >= 0 THEN a \div b ELSE -((-a) \div b)
\* math.Round: to the nearest integer, halves away from zero (a / b, b > 0)
RoundDiv(a, b) == IF a >= 0 THEN (2 * a + b) \div (2 * b) ELSE -((2 * (-a) + b) \div (2 * b))

knownBuild == [m \in 136..139 |-> CASE m = 136 -> 7103 [] m = 137 -> 7151
                                    [] m = 138 -> 7204 [] m = 139 -> 7258]

\* h: hours from the anchor t0 to d.  t = h/24 days; M = 136 + t/31;
\* B = knownBuild[int(M)] or 7103 + 52*(M-136); p = Round(0.88*t + 62.55)
approxMajor(h) == TruncDiv(136 * 744 + h, 744)
approxBuild(h) ==
  IF approxMajor(h) \in DOMAIN knownBuild THEN knownBuild[approxMajor(h)]
  ELSE TruncDiv(7103 * 186 + 13 * h, 186)
approxPatch(h) == RoundDiv(11 * h + 18765, 300)

approximateVersionForDate(h) ==
  Itoa(approxMajor(h)) \o <<".", "0", ".">> \o Itoa(approxBuild(h)) \o <<".">> \o Itoa(approxPatch(h))

\* a variant that starts a week back: the offsets 7, 14, ..., 35 days
approximateVersions_FromLastWeek(nowH) ==
  [i \in 1..5 |-> approximateVersionForDate(nowH - i * 7 * 24)]

\* today and the four weeks before it
approximateVersions(nowH) ==
  [i \in 1..5 |-> approximateVersionForDate(nowH - (i - 1) * 7 * 24)]

------------------------------------------------------------------------------
(* Disk cache: the content of a file and its JSON form *)

\* json.Marshal coerces a string to valid UTF-8: each invalid byte becomes U+FFFD
ToValidUTF8(s) == [i \in 1..Len(s) |-> IF s[i] = InvalidByte THEN ReplacementChar ELSE s[i]]

\* a variant that stamps every record with the anchor instead of the time it is given
Marshal_Unstamped(timestamp, vs) ==
  [kind |-> "json", timestamp |-> 0,
   versions |-> [i \in 1..Len(vs) |-> ToValidUTF8(vs[i])]]

\* json.Marshal(cacheFile{Timestamp, Versions}): the bytes of a complete JSON document
Marshal(timestamp, vs) ==
  [kind |-> "json", timestamp |-> timestamp,
   versions |-> [i \in 1..Len(vs) |-> ToValidUTF8(vs[i])]]

\* a variant whose field tag does not match the key "versions": the list stays empty
Unmarshal_WrongTag(data) ==
  IF data.kind = "json"
  THEN [err |-> FALSE, Timestamp |-> data.timestamp, Versions |-> <<>>]
  ELSE [err |-> TRUE, Timestamp |-> 0, Versions |-> <<>>]

\* json.Unmarshal(data, &cache): fails on anything that is not a complete document
Unmarshal(data) ==
  IF data.kind = "json"
  THEN [err |-> FALSE, Timestamp |-> data.timestamp, Versions |-> data.versions]
  ELSE [err |-> TRUE, Timestamp |-> 0, Versions |-> <<>>]

NoFile == [kind |-> "absent"]
\* a path os.ReadFile fails on for a reason other than not existing
Unreadable == [kind |-> "unreadable"]
\* bytes that are not a JSON document of the cache's shape
Malformed == [kind |-> "malformed"]
\* a created temporary file nothing was written to, and one holding a prefix of the data
EmptyFile == [kind |-> "empty"]
PartialFile == [kind |-> "partial"]

\* a variant that rejects a record whose age equals the TTL
loadFromDiskCache_StrictTTL(file, nowH, ttlH, live) ==
  IF file.kind \in {"absent", "unreadable"} THEN [loaded |-> FALSE, versions |-> live]
  ELSE LET cache == Unmarshal(file) IN
       IF cache.err THEN [loaded |-> FALSE, versions |-> live]
       ELSE IF nowH - cache.Timestamp >= ttlH THEN [loaded |-> FALSE, versions |-> live]
       ELSE IF Len(cache.Versions) = 0 THEN [loaded |-> FALSE, versions |-> live]
       ELSE [loaded |-> TRUE, versions |-> cache.Versions]

\* a variant without the check for an empty version list
loadFromDiskCache_NoEmptyCheck(file, nowH, ttlH, live) ==
  IF file.kind \in {"absent", "unreadable"} THEN [loaded |-> FALSE, versions |-> live]
  ELSE LET cache == Unmarshal(file) IN
       IF cache.err THEN [loaded |-> FALSE, versions |-> live]
       ELSE IF nowH - cache.Timestamp > ttlH THEN [loaded |-> FALSE, versions |-> live]
       ELSE [loaded |-> TRUE, versions |-> cache.Versions]

\* loadFromDiskCache: [loaded, versions] from the file, the clock and the TTL
loadFromDiskCache(file, nowH, ttlH, live) ==
  IF file.kind \in {"absent", "unreadable"} THEN [loaded |-> FALSE, versions |-> live]
  ELSE LET cache == Unmarshal(file) IN
       IF cache.err THEN [loaded |-> FALSE, versions |-> live]
       ELSE IF nowH - cache.Timestamp > ttlH THEN [loaded |-> FALSE, versions |-> live]
       ELSE IF Len(cache.Versions) = 0 THEN [loaded |-> FALSE, versions |-> live]
       ELSE [loaded |-> TRUE, versions |-> cache.Versions]

------------------------------------------------------------------------------
(* Source fetchers *)

FetchFailed == [err |-> TRUE, versions |-> <<>>]

\* fetchGoogleVersions on a response r = [doErr, status, decodeOK, releases, closeErr]
fetchGoogleVersions(r) ==
  IF r.doErr THEN FetchFailed
  ELSE IF r.status # 200 THEN FetchFailed
  ELSE IF ~r.decodeOK THEN FetchFailed
  ELSE IF Len(r.releases) = 0 THEN FetchFailed
  ELSE LET limit == Min(versionsToKeepFromGoogle, Len(r.releases)) IN
       \* the deferred errors.Join(err, resp.Body.Close()) sets the returned error
       [err |-> r.closeErr, versions |-> SubSeq(r.releases, 1, limit)]

msPrefix == <<"m","i","c","r","o","s","o","f","t","-","e","d","g","e","-","s","t","a","b","l","e","_">>
msSuffix == <<"_","a","m","d","6","4",".","d","e","b">>
msRevision == <<"-","1">>

\* the version recovered from the file name of a match
msVersionOf(filename) ==
  TrimSuffix(TrimSuffix(TrimPrefix(filename, msPrefix), msSuffix), msRevision)

\* the matches whose date parses, as releases [Version, Date], in page order
RECURSIVE msReleases(_)
msReleases(matches) ==
  IF matches = <<>> THEN <<>>
  ELSE (IF Head(matches).dateOK
        THEN <<[Version |-> msVersionOf(Head(matches).filename), Date |-> Head(matches).date]>>
        ELSE <<>>) \o msReleases(Tail(matches))

\* sort.Slice by Date descending is not stable: every order of the indices of rs with
\* non-increasing dates is a possible result
RECURSIVE msSortOrders(_, _)
msSortOrders(rs, S) ==
  IF S = {} THEN {<<>>}
  ELSE UNION { { <<i>> \o rest : rest \in msSortOrders(rs, S \ {i}) } :
               i \in { j \in S : \A k \in S : rs[j].Date >= rs[k].Date } }

\* a variant of the loop without its limit
RECURSIVE msDedupe_NoLimit(_, _, _)
msDedupe_NoLimit(rs, acc, limit) ==
  IF rs = <<>> THEN acc
  ELSE LET acc2 == IF \E k \in 1..Len(acc) : acc[k] = Head(rs).Version
                   THEN acc ELSE Append(acc, Head(rs).Version) IN
       msDedupe_NoLimit(Tail(rs), acc2, limit)

\* the de-duplication loop: first occurrences, stopping once limit versions are kept
RECURSIVE msDedupe(_, _, _)
msDedupe(rs, acc, limit) ==
  IF rs = <<>> THEN acc
  ELSE LET acc2 == IF \E k \in 1..Len(acc) : acc[k] = Head(rs).Version
                   THEN acc ELSE Append(acc, Head(rs).Version) IN
       IF Len(acc2) >= limit THEN acc2 ELSE msDedupe(Tail(rs), acc2, limit)

\* fetchMicrosoftVersions on a response r = [doErr, status, readOK, matches, closeErr]:
\* the set of results it can return
fetchMicrosoftVersions(r) ==
  IF r.doErr THEN {FetchFailed}
  ELSE IF r.status # 200 THEN {FetchFailed}
  ELSE IF ~r.readOK THEN {FetchFailed}
  ELSE IF Len(r.matches) = 0 THEN {FetchFailed}
  ELSE LET releases == msReleases(r.matches) IN
       IF Len(releases) = 0 THEN {FetchFailed}
       ELSE LET limit == Min(versionsToKeepFromMS, Len(releases)) IN
            { [err |-> r.closeErr,
               versions |-> msDedupe([i \in 1..Len(order) |-> releases[order[i]]], <<>>, limit)] :
              order \in msSortOrders(releases, 1..Len(releases)) }

------------------------------------------------------------------------------
(* Inputs: responses of the two sources, cache files found on disk, start instants *)

GoogleReleasesShort ==
  <<<<"1","4","1",".","0",".","7","3","9","0",".","5","5">>,
    <<"1","4","0",".","0",".","7","3","3","9",".","2","0","8">>>>

GoogleResponse(doErr, status, decodeOK, releases, closeErr) ==
  [doErr |-> doErr, status |-> status, decodeOK |-> decodeOK, releases |-> releases,
   closeErr |-> closeErr]
GoogleResponses ==
  { GoogleResponse(TRUE, 0, FALSE, <<>>, FALSE),
    GoogleResponse(FALSE, 503, TRUE, GoogleReleasesShort, FALSE),
    GoogleResponse(FALSE, 200, FALSE, <<>>, FALSE),
    GoogleResponse(FALSE, 200, TRUE, <<>>, FALSE),
    GoogleResponse(FALSE, 200, TRUE, GoogleReleasesShort, TRUE),
    GoogleResponse(FALSE, 200, TRUE, GoogleReleasesShort, FALSE) }

Match(filename, dateOK, date) == [filename |-> filename, dateOK |-> dateOK, date |-> date]
\* a page with a repeated version, a date that does not parse, and a file name outside
\* the usual pattern that holds a byte that is not valid UTF-8
MSMatchesPage ==
  << Match(<<"m","i","c","r","o","s","o","f","t","-","e","d","g","e","-","s","t","a","b","l","e","_","1","2","8",".","0",".","2","7","3","9",".","2","5","-","1","_","a","m","d","6","4",".","d","e","b">>, TRUE, 10),
     Match(<<"m","i","c","r","o","s","o","f","t","-","e","d","g","e","-","s","t","a","b","l","e","_","1","2","9",".","0",".","2","7","9","2",".","5","2","-","1","_","a","m","d","6","4",".","d","e","b">>, TRUE, 30),
     Match(<<"m","i","c","r","o","s","o","f","t","-","e","d","g","e","-","s","t","a","b","l","e","_","1","2","8",".","0",".","2","7","3","9",".","2","5","-","1","_","a","m","d","6","4",".","d","e","b">>, TRUE, 40),
     Match(<<"m","i","c","r","o","s","o","f","t","-","e","d","g","e","-","s","t","a","b","l","e","_","1","3","1",".","0",".","2","9","0","3",".","5","1","-","1","_","a","m","d","6","4",".","d","e","b">>, FALSE, 0),
     Match(<<"e", "d", "g", "e", InvalidByte, ".", "d", "e", "b">>, TRUE, 5) >>
MSMatchesUnparsed == << Match(msPrefix \o <<"1">> \o msSuffix, FALSE, 0) >>

MSResponse(doErr, status, readOK, matches, closeErr) ==
  [doErr |-> doErr, status |-> status, readOK |-> readOK, matches |-> matches,
   closeErr |-> closeErr]
MSResponses ==
  { MSResponse(TRUE, 0, FALSE, <<>>, FALSE),
    MSResponse(FALSE, 404, TRUE, MSMatchesPage, FALSE),
    MSResponse(FALSE, 200, FALSE, <<>>, FALSE),
    MSResponse(FALSE, 200, TRUE, <<>>, FALSE),
    MSResponse(FALSE, 200, TRUE, MSMatchesUnparsed, FALSE),
    MSResponse(FALSE, 200, TRUE, MSMatchesPage, TRUE),
    MSResponse(FALSE, 200, TRUE, MSMatchesPage, FALSE) }

\* what each fetcher can return on these responses
GoogleResults == { fetchGoogleVersions(r) : r \in GoogleResponses }
MSResults == UNION { fetchMicrosoftVersions(r) : r \in MSResponses }

CachedVersions ==
  <<<<"1","3","9",".","0",".","7","2","5","8",".","6","6">>,
    <<"1","3","8",".","0",".","7","2","0","4",".","1","8","3">>>>

\* instants at which a behaviour starts: inside the table of known builds, and after it
StartTimes == {100, 13000}
TTLs == {TickHours}

\* what the cache path may hold when a generator is first constructed
InitialFiles(nowH) ==
  { NoFile, Unreadable, Malformed,
    Marshal(nowH, <<>>),
    Marshal(nowH - TickHours, CachedVersions),
    Marshal(nowH, CachedVersions) }

------------------------------------------------------------------------------
(* State *)

\* http.Client{Timeout: 15 * time.Second}
defaultTimeout == 15

VARIABLES
  now,            \* the clock, in hours from the anchor
  ticks,          \* clock steps taken
  run,            \* constructions started on this cache path
  cacheOn,        \* diskCachePath # ""
  ttl,            \* diskCacheTTL
  timeout,        \* httpClient.Timeout, in seconds
  disk,           \* the file at diskCachePath
  tmp,            \* the temporary file of saveToDiskCache
  saveData,       \* the marshalled record saveToDiskCache is writing
  versions,       \* g.versions
  pc,             \* position of NewGenerator
  ret,            \* what NewGenerator returned: "none", "ok" or "error"
  ctx,            \* the shared context: "none", "active" or "done"
  resultsChan,    \* the buffered result channel
  gpc, gres,      \* Google goroutine: position and fetched versions
  mpc, mres,      \* Microsoft goroutine: position and fetched versions
  wg,             \* the wait group's counter
  allNetworkDone, \* the watcher has closed allNetworkDone
  installedBy,    \* history: what supplied g.versions: "cache", "google", "microsoft", or
                  \* the approximation after "alldone" or "timeout"
  saved,          \* history: the version set and timestamp of the last completed save
  out,            \* the result of the last call on the generator
  held,           \* a result of an earlier call that the caller has kept
  buffer,         \* the caller's buffer that the exported functions fill
  globalGenerator, \* globalGenerator # nil
  initErr,        \* initErr # nil
  initOnce,       \* initOnce: "idle", "running" or "done"
  shutdownOnce,   \* shutdownOnce: "idle", "running" or "done"
  cLogCallback,   \* cLogCallback # nil
  logChannel,     \* the buffered channel of formatted records, oldest first
  stopLogs,       \* stopLogs: "nil", "open" or "closed"
  processorWG,    \* the counter of processorWG
  droppedLogs,    \* droppedLogs
  loggingDisabled, \* loggingDisabled
  processor,      \* the goroutine of startLogProcessor: its position and the message it took
  calls,          \* the calls of the binding and of the log handler that are under way
  tally,          \* history: what has been started, handled and enqueued so far, and
                  \* whether the callback was invoked after Shutdown had returned
  mu,             \* g.mu: whether it is held exclusively, and by how many readers
  local,          \* the version set NewGenerator is about to assign, or has copied out
  threads,        \* the callers' threads: the call each is in and what it has read
  lastStep        \* history: the kind of the last step that touched g.versions, g.mu or
                  \* a file or the network

vars == <<now, ticks, run, cacheOn, ttl, timeout, disk, tmp, saveData, versions, pc, ret, ctx,
          resultsChan, gpc, gres, mpc, mres, wg, allNetworkDone, installedBy, saved, out,
          held, buffer, globalGenerator, initErr, initOnce, shutdownOnce, cLogCallback,
          logChannel, stopLogs, processorWG, droppedLogs, loggingDisabled, processor, calls,
          tally, mu, local, threads, lastStep>>

clockVars == <<now, ticks>>
configVars == <<run, cacheOn, ttl, timeout>>
fileVars == <<disk, tmp, saveData, saved>>
raceVars == <<ctx, resultsChan, gpc, gres, mpc, mres, wg, allNetworkDone>>
genVars == <<versions, pc, ret, installedBy>>
callerVars == <<held, buffer>>
logVars == <<cLogCallback, logChannel, droppedLogs, loggingDisabled>>
procVars == <<stopLogs, processorWG, processor>>
libVars == <<globalGenerator, initErr, initOnce, shutdownOnce, logVars, procVars, calls, tally>>
lockVars == <<mu, local, threads, lastStep>>
extVars == <<callerVars, libVars, lockVars>>
\* all that belongs to the generator and its callers, none of it to the binding
generatorVars == <<clockVars, configVars, fileVars, raceVars, genVars, out, callerVars, lockVars>>

NoOutput == [op |-> "none"]
NothingSaved == [done |-> FALSE, timestamp |-> 0, versions |-> <<>>]
\* the caller's buffer as it was allocated, nothing written to it
Untouched == [written |-> FALSE, bytes |-> <<>>]

\* the caller holds no earlier result and its buffer is untouched
InitCaller == held = NoOutput /\ buffer = Untouched
\* the package-level variables of the C binding before Initialize
\* the callers' threads
Threads == {1, 2}
NoCall == [pc |-> "idle", op |-> "none", useCache |-> FALSE, cacheTTLDays |-> 0, code |-> 0,
           msg |-> 0]
NotStarted == [pc |-> "none", msg |-> 0]
NoTally == [constructed |-> 0, started |-> 0, first |-> NoCall, codes |-> {},
            backlog |-> 0, begun |-> 0, handled |-> 0, enqueued |-> 0, late |-> FALSE]
InitLibrary ==
  /\ globalGenerator = FALSE /\ initErr = FALSE /\ initOnce = "idle"
  /\ shutdownOnce = "idle"
  /\ cLogCallback = FALSE
  /\ logChannel = <<>>
  /\ stopLogs = "nil"
  /\ processorWG = 0
  /\ droppedLogs = 0
  /\ loggingDisabled = FALSE
  /\ processor = NotStarted
  /\ calls = [t \in Threads |-> NoCall]
  /\ tally = NoTally

Idle == [pc |-> "idle", op |-> "none", arg |-> 0, seen |-> <<>>, result |-> <<>>]
Unlocked == [writer |-> FALSE, readers |-> 0]
NoStep == [kind |-> "none", by |-> 0]
NoLocal == [by |-> "none", versions |-> <<>>]
\* g.mu as declared, no caller inside the generator
InitMutex ==
  /\ mu = Unlocked
  /\ local = NoLocal
  /\ threads = [t \in Threads |-> Idle]
  /\ lastStep = NoStep

Init ==
  /\ now \in StartTimes
  /\ ticks = 0
  /\ run = 1
  /\ timeout = defaultTimeout
  /\ cacheOn \in BOOLEAN
  /\ ttl \in (IF cacheOn THEN TTLs ELSE {0})
  /\ disk \in (IF cacheOn THEN InitialFiles(now) ELSE {NoFile})
  /\ tmp = NoFile
  /\ saveData = NoFile
  /\ versions = <<>>
  /\ pc = "start"
  /\ ret = "none"
  /\ ctx = "none"
  /\ resultsChan = <<>>
  /\ gpc = "idle" /\ gres = <<>>
  /\ mpc = "idle" /\ mres = <<>>
  /\ wg = 0
  /\ allNetworkDone = FALSE
  /\ installedBy = "none"
  /\ saved = NothingSaved
  /\ out = NoOutput
  /\ InitCaller /\ InitLibrary /\ InitMutex

------------------------------------------------------------------------------
(* NewGenerator *)

\* a variant without the early return: a loaded cache is followed by updateVersions
LoadCache_NoEarlyReturn ==
  /\ pc = "start" /\ cacheOn
  /\ LET r == loadFromDiskCache(disk, now, ttl, versions) IN
       /\ versions' = r.versions
       /\ pc' = "update"
       /\ ret' = ret
       /\ installedBy' = IF r.loaded THEN "cache" ELSE installedBy
  /\ UNCHANGED <<extVars, clockVars, configVars, fileVars, raceVars, out>>

\* step 1: the cache is enabled, loadFromDiskCache; a hit returns the generator
LoadCache ==
  /\ pc = "start" /\ cacheOn
  /\ LET r == loadFromDiskCache(disk, now, ttl, versions) IN
       /\ versions' = r.versions
       /\ pc' = IF r.loaded THEN "done" ELSE "update"
       /\ ret' = IF r.loaded THEN "ok" ELSE ret
       /\ installedBy' = IF r.loaded THEN "cache" ELSE installedBy
  /\ UNCHANGED <<extVars, clockVars, configVars, fileVars, raceVars, out>>

withTimeout_NeverExpired(d) == "active"

\* context.WithTimeout(context.Background(), d): a context whose deadline is not in the
\* future is done when it is returned
withTimeout(d) == IF d <= 0 THEN "done" ELSE "active"

\* step 2, updateVersions up to its select: the context, the channel, the wait group,
\* the two fetcher goroutines and the watcher are started
StartUpdate ==
  /\ \/ pc = "start" /\ ~cacheOn
     \/ pc = "update"
  /\ pc' = "select"
  /\ ctx' = withTimeout(timeout)
  /\ resultsChan' = <<>>
  /\ wg' = 2
  /\ gpc' = "fetch" /\ gres' = <<>>
  /\ mpc' = "fetch" /\ mres' = <<>>
  /\ allNetworkDone' = FALSE
  /\ UNCHANGED <<extVars, clockVars, configVars, fileVars, versions, ret, installedBy, out>>

\* the shared deadline passes
Deadline ==
  /\ ctx = "active"
  /\ ctx' = "done"
  /\ UNCHANGED <<extVars, clockVars, configVars, fileVars, genVars, resultsChan, gpc, gres, mpc, mres,
                 wg, allNetworkDone, out>>

\* the Google goroutine's fetchGoogleVersions returns; a request still running when the
\* context is done ends with the context's error
GoogleFetch ==
  /\ gpc = "fetch"
  /\ \E res \in (IF ctx = "done" THEN {FetchFailed} ELSE GoogleResults) :
       IF res.err
       THEN /\ gpc' = "done" /\ wg' = wg - 1 /\ gres' = <<>>
       ELSE /\ gpc' = "send" /\ wg' = wg /\ gres' = res.versions
  /\ UNCHANGED <<extVars, clockVars, configVars, fileVars, genVars, ctx, resultsChan, mpc, mres,
                 allNetworkDone, out>>

\* select { case resultsChan <- versions: case <-ctx.Done(): }, then wg.Done()
Message(source, vs) == [source |-> source, versions |-> vs, timely |-> ctx = "active"]

\* a variant with one slot in the channel and a send that does not watch the context
GoogleSend_OneSlot ==
  /\ gpc = "send"
  /\ Len(resultsChan) < 1
  /\ resultsChan' = Append(resultsChan, Message("google", gres))
  /\ gpc' = "done" /\ wg' = wg - 1 /\ gres' = <<>>
  /\ UNCHANGED <<extVars, clockVars, configVars, fileVars, genVars, ctx, mpc, mres,
                 allNetworkDone, out>>

GoogleSend ==
  /\ gpc = "send"
  /\ \/ /\ Len(resultsChan) < 2
        /\ resultsChan' = Append(resultsChan, Message("google", gres))
     \/ /\ ctx = "done"
        /\ resultsChan' = resultsChan
  /\ gpc' = "done" /\ wg' = wg - 1 /\ gres' = <<>>
  /\ UNCHANGED <<extVars, clockVars, configVars, fileVars, genVars, ctx, mpc, mres,
                 allNetworkDone, out>>

MicrosoftFetch ==
  /\ mpc = "fetch"
  /\ \E res \in (IF ctx = "done" THEN {FetchFailed} ELSE MSResults) :
       IF res.err
       THEN /\ mpc' = "done" /\ wg' = wg - 1 /\ mres' = <<>>
       ELSE /\ mpc' = "send" /\ wg' = wg /\ mres' = res.versions
  /\ UNCHANGED <<extVars, clockVars, configVars, fileVars, genVars, ctx, resultsChan, gpc, gres,
                 allNetworkDone, out>>

MicrosoftSend ==
  /\ mpc = "send"
  /\ \/ /\ Len(resultsChan) < 2
        /\ resultsChan' = Append(resultsChan, Message("microsoft", mres))
     \/ /\ ctx = "done"
        /\ resultsChan' = resultsChan
  /\ mpc' = "done" /\ wg' = wg - 1 /\ mres' = <<>>
  /\ UNCHANGED <<extVars, clockVars, configVars, fileVars, genVars, ctx, gres, gpc,
                 allNetworkDone, out>>

\* the watcher: wg.Wait(); close(allNetworkDone)
Watcher ==
  /\ ctx # "none" /\ wg = 0 /\ ~allNetworkDone
  /\ allNetworkDone' = TRUE
  /\ UNCHANGED <<extVars, clockVars, configVars, fileVars, genVars, ctx, resultsChan, gpc, gres, mpc,
                 mres, wg, out>>

\* a variant that returns the context's error when the deadline has passed
updateVersionsCase_ErrOnTimeout(case, nowH) ==
  CASE case = "result"  -> [versions |-> Head(resultsChan).versions, err |-> FALSE,
                            by |-> Head(resultsChan).source]
    [] case = "alldone" -> [versions |-> approximateVersions(nowH), err |-> FALSE,
                            by |-> "alldone"]
    [] case = "timeout" -> [versions |-> <<>>, err |-> TRUE, by |-> "none"]

\* a variant that drains the channel and installs everything it held
updateVersionsCase_Merge(case, nowH) ==
  CASE case = "result"  -> [versions |-> IF Len(resultsChan) = 2
                                         THEN resultsChan[1].versions \o resultsChan[2].versions
                                         ELSE Head(resultsChan).versions,
                            err |-> FALSE, by |-> Head(resultsChan).source]
    [] case = "alldone" -> [versions |-> approximateVersions(nowH), err |-> FALSE,
                            by |-> "alldone"]
    [] case = "timeout" -> [versions |-> approximateVersions(nowH), err |-> FALSE,
                            by |-> "timeout"]

\* what updateVersions installs and returns in each case of its select
updateVersionsCase(case, nowH) ==
  CASE case = "result"  -> [versions |-> Head(resultsChan).versions, err |-> FALSE,
                            by |-> Head(resultsChan).source]
    [] case = "alldone" -> [versions |-> approximateVersions(nowH), err |-> FALSE,
                            by |-> "alldone"]
    [] case = "timeout" -> [versions |-> approximateVersions(nowH), err |-> FALSE,
                            by |-> "timeout"]

\* the rest of NewGenerator after updateVersions returned u
AfterUpdate(u) ==
  /\ versions' = u.versions
  /\ installedBy' = u.by
  /\ ctx' = "done"             \* the deferred cancel()
  /\ IF u.err THEN pc' = "done" /\ ret' = "error"
     ELSE IF cacheOn THEN pc' = "save" /\ ret' = ret
     ELSE pc' = "done" /\ ret' = "ok"

\* the coordinator's select: any of its ready cases may be taken
SelectResult ==
  /\ pc = "select" /\ resultsChan # <<>>
  /\ AfterUpdate(updateVersionsCase("result", now))
  /\ resultsChan' = Tail(resultsChan)
  /\ UNCHANGED <<extVars, clockVars, configVars, fileVars, gpc, gres, mpc, mres, wg, allNetworkDone, out>>

SelectAllDone ==
  /\ pc = "select" /\ allNetworkDone
  /\ AfterUpdate(updateVersionsCase("alldone", now))
  /\ UNCHANGED <<extVars, clockVars, configVars, fileVars, resultsChan, gpc, gres, mpc, mres, wg,
                 allNetworkDone, out>>

\* a variant of the timeout case that is taken only once both fetchers have ended
SelectTimeout_AfterFetchers ==
  /\ pc = "select" /\ ctx = "done" /\ wg = 0
  /\ AfterUpdate(updateVersionsCase("timeout", now))
  /\ UNCHANGED <<extVars, clockVars, configVars, fileVars, resultsChan, gpc, gres, mpc, mres, wg,
                 allNetworkDone, out>>

SelectTimeout ==
  /\ pc = "select" /\ ctx = "done"
  /\ AfterUpdate(updateVersionsCase("timeout", now))
  /\ UNCHANGED <<extVars, clockVars, configVars, fileVars, resultsChan, gpc, gres, mpc, mres, wg,
                 allNetworkDone, out>>

------------------------------------------------------------------------------
(* saveToDiskCache: step 3 of NewGenerator when the cache is enabled *)

\* NewGenerator returns the generator once saveToDiskCache has returned
SaveReturns ==
  /\ pc' = "done"
  /\ ret' = "ok"

\* the snapshot of g.versions, json.Marshal and os.CreateTemp
SaveBegin(marshalOK, createOK) ==
  /\ pc = "save"
  /\ IF Len(versions) = 0 \/ ~marshalOK \/ ~createOK
     THEN SaveReturns /\ UNCHANGED <<tmp, saveData>>
     ELSE /\ saveData' = Marshal(now, versions)
          /\ tmp' = EmptyFile
          /\ pc' = "save_write"
          /\ ret' = ret
  /\ UNCHANGED <<extVars, clockVars, configVars, disk, saved, raceVars, versions, installedBy, out>>

\* a variant that writes the data to the destination itself
SaveWriteProgress_InPlace ==
  /\ pc = "save_write" /\ tmp = EmptyFile
  /\ disk' = PartialFile
  /\ UNCHANGED <<extVars, clockVars, configVars, tmp, saveData, saved, raceVars, genVars, out>>

\* part of the data has reached the temporary file
SaveWriteProgress ==
  /\ pc = "save_write" /\ tmp = EmptyFile
  /\ tmp' = PartialFile
  /\ UNCHANGED <<extVars, clockVars, configVars, disk, saveData, saved, raceVars, genVars, out>>

\* tempFile.Write(data); on an error the file is closed and the deferred Remove runs
SaveWrite(ok) ==
  /\ pc = "save_write"
  /\ IF ok THEN tmp' = saveData /\ pc' = "save_close" /\ ret' = ret
     ELSE tmp' = NoFile /\ SaveReturns
  /\ UNCHANGED <<extVars, clockVars, configVars, disk, saveData, saved, raceVars, versions, installedBy, out>>

\* tempFile.Close()
SaveClose(ok) ==
  /\ pc = "save_close"
  /\ IF ok THEN tmp' = tmp /\ pc' = "save_rename" /\ ret' = ret
     ELSE tmp' = NoFile /\ SaveReturns
  /\ UNCHANGED <<extVars, clockVars, configVars, disk, saveData, saved, raceVars, versions, installedBy, out>>

\* os.Rename(tempFile.Name(), g.diskCachePath), then the deferred Remove
SaveRename(ok) ==
  /\ pc = "save_rename"
  /\ IF ok
     THEN /\ disk' = tmp
          /\ saved' = [done |-> TRUE, timestamp |-> saveData.timestamp, versions |-> versions]
     ELSE UNCHANGED <<disk, saved>>
  /\ tmp' = NoFile
  /\ SaveReturns
  /\ UNCHANGED <<extVars, clockVars, configVars, saveData, raceVars, versions, installedBy, out>>

\* the process dies during the save
Crash ==
  /\ pc \in {"save", "save_write", "save_close", "save_rename"}
  /\ pc' = "crashed"
  /\ UNCHANGED <<extVars, clockVars, configVars, fileVars, raceVars, versions, ret, installedBy, out>>

\* a new generator is constructed on the same cache path
Restart ==
  /\ pc \in {"done", "crashed"} /\ run < MaxRuns
  /\ run' = run + 1
  /\ pc' = "start" /\ ret' = "none"
  /\ versions' = <<>> /\ installedBy' = "none"
  /\ tmp' = NoFile /\ saveData' = NoFile
  /\ ctx' = "none" /\ resultsChan' = <<>> /\ wg' = 0 /\ allNetworkDone' = FALSE
  /\ gpc' = "idle" /\ gres' = <<>> /\ mpc' = "idle" /\ mres' = <<>>
  /\ out' = NoOutput
  /\ UNCHANGED <<extVars, clockVars, cacheOn, ttl, timeout, disk, saved>>

Tick ==
  /\ ticks < MaxTicks
  /\ ticks' = ticks + 1
  /\ now' = now + TickHours
  /\ UNCHANGED <<extVars, configVars, fileVars, raceVars, genVars, out>>

------------------------------------------------------------------------------
(* Calls on a constructed generator *)

\* a []string under the verb %s: the elements between brackets, separated by spaces
RECURSIVE JoinSpace(_)
JoinSpace(list) ==
  IF list = <<>> THEN <<>>
  ELSE IF Len(list) = 1 THEN list[1]
  ELSE list[1] \o <<" ">> \o JoinSpace(Tail(list))
FormatSlice(list) == <<"[">> \o JoinSpace(list) \o <<"]">>

\* a variant that draws the version of the Edg/ slot on its own
Get_EdgeOtherVersion(vs, i, coin, nowH) ==
  IF Len(vs) = 0 THEN Sprintf(chromeUATemplate, <<FormatSlice(approximateVersions(nowH))>>)
  ELSE LET randomVersion == vs[i] IN
       IF coin = 0 THEN Sprintf(chromeUATemplate, <<randomVersion>>)
       ELSE Sprintf(edgeUATemplate, <<randomVersion, vs[Len(vs) + 1 - i]>>)

\* Get with the draws i = rand.IntN(len(g.versions)) + 1 and coin = rand.IntN(2)
Get(vs, i, coin, nowH) ==
  IF Len(vs) = 0 THEN Sprintf(chromeUATemplate, <<FormatSlice(approximateVersions(nowH))>>)
  ELSE LET randomVersion == vs[i] IN
       IF coin = 0 THEN Sprintf(chromeUATemplate, <<randomVersion>>)
       ELSE Sprintf(edgeUATemplate, <<randomVersion, randomVersion>>)

\* the values rand.IntN(n) can return, counted from 1; one draw is assumed where none is made
Draws(n) == IF n = 0 THEN {1} ELSE 1..n

Constructed == pc = "done" /\ ret = "ok"

\* Slices and maps are references: a result carries the identity of the array or map
\* it refers to. g.versions refers to the array VersionsArray; a make or a map literal
\* allocates an object that nothing else refers to.
VersionsArray == "g.versions"
Objects == {"object1", "object2"}
ObjectOf(result) == IF "object" \in DOMAIN result THEN result.object ELSE "none"
\* an object no result refers to
NewObject == CHOOSE o \in Objects : o # ObjectOf(held) /\ o # ObjectOf(out)

\* the caller is done with the result of its last call
DropResult ==
  /\ out # NoOutput
  /\ out' = NoOutput
  /\ UNCHANGED <<extVars, clockVars, configVars, fileVars, raceVars, genVars>>

CallGet ==
  /\ Constructed /\ out = NoOutput
  /\ \E i \in Draws(Len(versions)), coin \in 0..1 :
       out' = [op |-> "Get", ua |-> Get(versions, i, coin, now)]
  /\ UNCHANGED <<extVars, clockVars, configVars, fileVars, raceVars, genVars>>

\* GetVersions: a copy of g.versions
GetVersions(vs) == [i \in 1..Len(vs) |-> vs[i]]

versionsCopy_Alias(fresh) == VersionsArray

\* versionsCopy := make([]string, len(g.versions)): the array the result refers to
versionsCopy(fresh) == fresh

CallGetVersions ==
  /\ Constructed /\ out = NoOutput
  /\ out' = [op |-> "GetVersions", object |-> versionsCopy(NewObject),
             versions |-> GetVersions(versions)]
  /\ UNCHANGED <<extVars, clockVars, configVars, fileVars, raceVars, genVars>>

------------------------------------------------------------------------------
(* Crawler headers *)

GoogleBot == 0
BingBot == 1
YandexBot == 2

\* "Mozilla/5.0 AppleWebKit/537.36 (KHTML, like Gecko; compatible; Googlebot/2.1; +http://www.google.com/bot.html) Chrome/%s Safari/537.36"
googleBotUATemplate ==
  <<"M","o","z","i","l","l","a","/","5",".","0"," ","A","p","p","l","e","W","e","b","K","i","t",
    "/","5","3","7",".","3","6"," ","(","K","H","T","M","L",","," ","l","i","k","e"," ","G","e",
    "c","k","o",";"," ","c","o","m","p","a","t","i","b","l","e",";"," ","G","o","o","g","l","e",
    "b","o","t","/","2",".","1",";"," ","+","h","t","t","p",":","/","/","w","w","w",".","g","o",
    "o","g","l","e",".","c","o","m","/","b","o","t",".","h","t","m","l",")"," ","C","h","r","o",
    "m","e","/","%","s"," ","S","a","f","a","r","i","/","5","3","7",".","3","6">>
\* "Mozilla/5.0 AppleWebKit/537.36 (KHTML, like Gecko; compatible; bingbot/2.0; +http://www.bing.com/bingbot.htm) Chrome/%s Safari/537.36"
bingBotUATemplate ==
  <<"M","o","z","i","l","l","a","/","5",".","0"," ","A","p","p","l","e","W","e","b","K","i","t",
    "/","5","3","7",".","3","6"," ","(","K","H","T","M","L",","," ","l","i","k","e"," ","G","e",
    "c","k","o",";"," ","c","o","m","p","a","t","i","b","l","e",";"," ","b","i","n","g","b","o",
    "t","/","2",".","0",";"," ","+","h","t","t","p",":","/","/","w","w","w",".","b","i","n","g",
    ".","c","o","m","/","b","i","n","g","b","o","t",".","h","t","m",")"," ","C","h","r","o","m",
    "e","/","%","s"," ","S","a","f","a","r","i","/","5","3","7",".","3","6">>
yandexBotUA ==
  <<"M","o","z","i","l","l","a","/","5",".","0"," ","(","c","o","m","p","a","t","i","b","l","e",
    ";"," ","Y","a","n","d","e","x","B","o","t","/","3",".","0",";"," ","+","h","t","t","p",":",
    "/","/","y","a","n","d","e","x",".","c","o","m","/","b","o","t","s",")">>
googleBotFrom ==
  <<"g","o","o","g","l","e","b","o","t","(","a","t",")","g","o","o","g","l","e",".","c","o","m">>
crawlerAccept ==
  <<"t","e","x","t","/","h","t","m","l",",","a","p","p","l","i","c","a","t","i","o","n","/","x",
    "h","t","m","l","+","x","m","l",",","a","p","p","l","i","c","a","t","i","o","n","/","x","m",
    "l",";","q","=","0",".","9",",","*","/","*",";","q","=","0",".","8">>
crawlerAcceptEncoding ==
  <<"g","z","i","p",","," ","d","e","f","l","a","t","e",","," ","b","r">>
acceptLanguage ==
  <<"e","n","-","U","S",",","e","n",";","q","=","0",".","9">>

\* a header map: a function from header names to values

getCrawlerHeadersWithVersion_FromForAll(crawlerType, chromeVersion) ==
  LET headers == [k \in {"accept", "accept-encoding", "accept-language", "from"} |->
                    CASE k = "accept" -> crawlerAccept
                      [] k = "accept-encoding" -> crawlerAcceptEncoding
                      [] k = "accept-language" -> acceptLanguage
                      [] k = "from" -> googleBotFrom]
      defaultBotUserAgent == Sprintf(googleBotUATemplate, <<chromeVersion>>)
  IN CASE crawlerType = BingBot ->
            headers @@ ("user-agent" :> Sprintf(bingBotUATemplate, <<chromeVersion>>))
       [] crawlerType = YandexBot -> headers @@ ("user-agent" :> yandexBotUA)
       [] OTHER -> headers @@ ("user-agent" :> defaultBotUserAgent)

getCrawlerHeadersWithVersion_DefaultYandex(crawlerType, chromeVersion) ==
  LET headers == [k \in {"accept", "accept-encoding", "accept-language"} |->
                    CASE k = "accept" -> crawlerAccept
                      [] k = "accept-encoding" -> crawlerAcceptEncoding
                      [] k = "accept-language" -> acceptLanguage]
      defaultBotUserAgent == Sprintf(googleBotUATemplate, <<chromeVersion>>)
  IN CASE crawlerType = GoogleBot ->
            headers @@ ("from" :> googleBotFrom) @@ ("user-agent" :> defaultBotUserAgent)
       [] crawlerType = BingBot ->
            headers @@ ("user-agent" :> Sprintf(bingBotUATemplate, <<chromeVersion>>))
       [] OTHER -> headers @@ ("user-agent" :> yandexBotUA)

\* getCrawlerHeadersWithVersion
getCrawlerHeadersWithVersion(crawlerType, chromeVersion) ==
  LET headers == [k \in {"accept", "accept-encoding", "accept-language"} |->
                    CASE k = "accept" -> crawlerAccept
                      [] k = "accept-encoding" -> crawlerAcceptEncoding
                      [] k = "accept-language" -> acceptLanguage]
      defaultBotUserAgent == Sprintf(googleBotUATemplate, <<chromeVersion>>)
  IN CASE crawlerType = GoogleBot ->
            headers @@ ("from" :> googleBotFrom) @@ ("user-agent" :> defaultBotUserAgent)
       [] crawlerType = BingBot ->
            headers @@ ("user-agent" :> Sprintf(bingBotUATemplate, <<chromeVersion>>))
       [] crawlerType = YandexBot ->
            headers @@ ("user-agent" :> yandexBotUA)
       [] OTHER ->
            headers @@ ("from" :> googleBotFrom) @@ ("user-agent" :> defaultBotUserAgent)

\* GetCrawlerHeaders: the head of the version set, or the approximation for now
GetCrawlerHeaders(vs, crawlerType, nowH) ==
  IF Len(vs) = 0
  THEN getCrawlerHeadersWithVersion(crawlerType, approximateVersionForDate(nowH))
  ELSE getCrawlerHeadersWithVersion(crawlerType, vs[1])

\* the crawler types a caller passes: the three of the enumeration and some outside it
CrawlerTypes == {GoogleBot, BingBot, YandexBot, -1, 3, 7}

headersMap_Shared(fresh) == "object1"

\* headers := map[string]string{...}: the map a header result refers to
headersMap(fresh) == fresh

CallGetCrawlerHeaders ==
  /\ Constructed /\ out = NoOutput
  /\ \E t \in CrawlerTypes :
       out' = [op |-> "GetCrawlerHeaders", crawlerType |-> t, object |-> headersMap(NewObject),
               headers |-> GetCrawlerHeaders(versions, t, now)]
  /\ UNCHANGED <<extVars, clockVars, configVars, fileVars, raceVars, genVars>>


------------------------------------------------------------------------------
(* Characters *)

LowerLetters ==
  <<"a","b","c","d","e","f","g","h","i","j","k","l","m","n","o","p","q","r","s","t","u","v",
    "w","x","y","z">>
UpperLetters ==
  <<"A","B","C","D","E","F","G","H","I","J","K","L","M","N","O","P","Q","R","S","T","U","V",
    "W","X","Y","Z">>

Range(s) == {s[i] : i \in 1..Len(s)}
Digit == Range(DigitChar)
Letter == Range(LowerLetters) \cup Range(UpperLetters)
Hex == Digit \cup {"a","b","c","d","e","f","A","B","C","D","E","F"}
\* unicode.IsSpace, on the characters used here
Space == {" ", "\t", "\n", "\r"}
\* the ASCII control characters used here
CTL == {"\t", "\n", "\r"}
IsDigit(c) == c \in Digit
IsLetter(c) == c \in Letter
IsHex(c) == c \in Hex
IsSpace(c) == c \in Space

LowerChar(c) ==
  IF c \in Range(UpperLetters)
  THEN LowerLetters[CHOOSE i \in 1..26 : UpperLetters[i] = c]
  ELSE c
ToLower(s) == [i \in 1..Len(s) |-> LowerChar(s[i])]

\* strings.Index / strings.LastIndex for one character, counted from 1; 0 when absent
IndexOf(s, c) ==
  IF \E i \in 1..Len(s) : s[i] = c THEN Least({i \in 1..Len(s) : s[i] = c}) ELSE 0
LastIndexOf(s, c) ==
  IF \E i \in 1..Len(s) : s[i] = c
  THEN CHOOSE i \in 1..Len(s) : s[i] = c /\ \A j \in (i + 1)..Len(s) : s[j] # c
  ELSE 0
\* the text before, and from, position i (all of s, and nothing, when i = 0)
Before(s, i) == IF i = 0 THEN s ELSE SubSeq(s, 1, i - 1)
From(s, i) == IF i = 0 THEN <<>> ELSE SubSeq(s, i, Len(s))
\* the end of the longest run that starts at j of characters in the class C (of
\* characters outside C when inside is FALSE); j - 1 when the run is empty
RECURSIVE RunEnd(_, _, _, _)
RunEnd(s, j, C, inside) ==
  IF j > Len(s) \/ (s[j] \in C) # inside THEN j - 1
  ELSE RunEnd(s, j + 1, C, inside)

------------------------------------------------------------------------------
(* net/url.Parse, for what GetHeaders reads of it: whether it fails, Scheme and Host *)

ParseError == [err |-> TRUE, Scheme |-> <<>>, Host |-> <<>>]

\* a "%" that is not followed by two hexadecimal digits
BadEscape(s) ==
  \E i \in 1..Len(s) :
    s[i] = "%" /\ ~(i + 2 <= Len(s) /\ IsHex(s[i + 1]) /\ IsHex(s[i + 2]))

SchemeChar == Letter \cup Digit \cup {"+", "-", "."}

\* getScheme: [err, scheme, rest]
getScheme(u) ==
  IF u = <<>> THEN [err |-> FALSE, scheme |-> <<>>, rest |-> u]
  ELSE IF u[1] = ":" THEN [err |-> TRUE, scheme |-> <<>>, rest |-> u]
  ELSE IF ~IsLetter(u[1]) THEN [err |-> FALSE, scheme |-> <<>>, rest |-> u]
  ELSE LET k == RunEnd(u, 1, SchemeChar, TRUE) + 1 IN
       IF k <= Len(u) /\ u[k] = ":"
       THEN [err |-> FALSE, scheme |-> SubSeq(u, 1, k - 1), rest |-> SubSeq(u, k + 1, Len(u))]
       ELSE [err |-> FALSE, scheme |-> <<>>, rest |-> u]

\* parseHost: the host with its optional port, or an error
hostError(host) ==
  IF host # <<>> /\ host[1] = "["
  THEN LET close == LastIndexOf(host, "]") IN
       \/ close = 0
       \/ LET port == SubSeq(host, close + 1, Len(host)) IN
            port # <<>> /\ ~(port[1] = ":" /\ \A k \in 2..Len(port) : IsDigit(port[k]))
  ELSE \/ LET colon == LastIndexOf(host, ":") IN
            colon # 0 /\ \E k \in (colon + 1)..Len(host) : ~IsDigit(host[k])
       \/ BadEscape(host)
       \/ \E k \in 1..Len(host) : host[k] \in {" ", "\\", "^", "{", "|", "}"}

urlParse(rawURL) ==
  LET u == Before(rawURL, IndexOf(rawURL, "#"))
      frag == From(rawURL, IndexOf(rawURL, "#"))
  IN
  IF \E k \in 1..Len(u) : u[k] \in CTL THEN ParseError
  ELSE IF BadEscape(frag) THEN ParseError
  ELSE LET s == getScheme(u) IN
  IF s.err THEN ParseError
  ELSE LET scheme == ToLower(s.scheme)
           rest == Before(s.rest, IndexOf(s.rest, "?"))
       IN
       IF ~HasPrefix(rest, <<"/">>) /\ scheme # <<>>
       THEN [err |-> FALSE, Scheme |-> scheme, Host |-> <<>>]      \* an opaque URL
       ELSE IF ~HasPrefix(rest, <<"/">>)
               /\ IndexOf(Before(rest, IndexOf(rest, "/")), ":") # 0
       THEN ParseError                     \* a colon in the first path segment
       ELSE IF HasPrefix(rest, <<"/", "/">>)
               /\ (scheme # <<>> \/ ~HasPrefix(rest, <<"/", "/", "/">>))
       THEN LET after == SubSeq(rest, 3, Len(rest))
                authority == Before(after, IndexOf(after, "/"))
                path == From(after, IndexOf(after, "/"))
                host == SubSeq(authority, LastIndexOf(authority, "@") + 1, Len(authority))
            IN IF hostError(host) \/ BadEscape(path) THEN ParseError
               ELSE [err |-> FALSE, Scheme |-> scheme, Host |-> host]
       ELSE IF BadEscape(rest) THEN ParseError
       ELSE [err |-> FALSE, Scheme |-> scheme, Host |-> <<>>]


------------------------------------------------------------------------------
(* Header synthesis *)

chromeToken == <<"C","h","r","o","m","e","/">>
edgToken == <<"E","d","g","/">>
windowsLower == <<"w","i","n","d","o","w","s">>
platformWindows == <<"W","i","n","d","o","w","s">>
platformLinux == <<"L","i","n","u","x">>
brandChrome == <<"G","o","o","g","l","e"," ","C","h","r","o","m","e">>
brandEdge == <<"M","i","c","r","o","s","o","f","t"," ","E","d","g","e">>

At(s, i, p) == i + Len(p) - 1 <= Len(s) /\ s[i] = p[1] /\ SubSeq(s, i, i + Len(p) - 1) = p

\* uaMajorVersionRegex, Chrome/(\d+): the group of the leftmost match, <<>> without one
majorVersionMatch(ua) ==
  LET starts == {i \in 1..Len(ua) :
                   At(ua, i, chromeToken) /\ i + 7 <= Len(ua) /\ IsDigit(ua[i + 7])}
  IN IF starts = {} THEN [ok |-> FALSE, group |-> <<>>]
     ELSE LET j == Least(starts) + 7 IN
          [ok |-> TRUE, group |-> SubSeq(ua, j, RunEnd(ua, j, Digit, TRUE))]

\* the end of a match that starts at j of n groups \d+ separated by dots, or 0
RECURSIVE dottedEnd(_, _, _)
dottedEnd(s, j, n) ==
  LET e == RunEnd(s, j, Digit, TRUE) IN
  IF e < j THEN 0
  ELSE IF n = 1 THEN e
  ELSE IF e + 1 <= Len(s) /\ s[e + 1] = "." THEN dottedEnd(s, e + 2, n - 1)
  ELSE 0

\* the end of a match of \d+\.\d+\.\d+\.\d+ that starts at j, or 0
fullVersionEnd(s, j) == dottedEnd(s, j, 4)

\* uaFullVersionRegex, Chrome/(\d+\.\d+\.\d+\.\d+)
fullVersionMatch(ua) ==
  LET starts == {i \in 1..Len(ua) : At(ua, i, chromeToken) /\ fullVersionEnd(ua, i + 7) # 0}
  IN IF starts = {} THEN [ok |-> FALSE, group |-> <<>>]
     ELSE LET j == Least(starts) + 7 IN
          [ok |-> TRUE, group |-> SubSeq(ua, j, fullVersionEnd(ua, j))]

\* uaPlatformRegex, \(([^;]+)
platformMatch(ua) ==
  LET starts == {i \in 1..Len(ua) : ua[i] = "(" /\ i + 1 <= Len(ua) /\ ua[i + 1] # ";"}
  IN IF starts = {} THEN [ok |-> FALSE, group |-> <<>>]
     ELSE LET j == Least(starts) + 1 IN
          [ok |-> TRUE, group |-> SubSeq(ua, j, RunEnd(ua, j, {";"}, FALSE))]

\* strings.Fields(s): the first field, when there is one
FirstField(s) ==
  LET starts == {i \in 1..Len(s) : ~IsSpace(s[i])} IN
  IF starts = {} THEN [ok |-> FALSE, field |-> <<>>]
  ELSE LET j == Least(starts) IN
       [ok |-> TRUE, field |-> SubSeq(s, j, RunEnd(s, j, Space, FALSE))]

parseUserAgent_ChromeBrand(ua) ==
  LET major == majorVersionMatch(ua)
      full == fullVersionMatch(ua)
      plat == platformMatch(ua)
      platformStr == FirstField(plat.group)
      MajorVersion == IF major.ok THEN major.group ELSE <<>>
  IN [panic |-> plat.ok /\ ~platformStr.ok,
      UserAgent |-> ua,
      MajorVersion |-> MajorVersion,
      FullVersion |-> IF full.ok THEN full.group ELSE MajorVersion,
      Platform |-> IF plat.ok /\ platformStr.ok
                   THEN (IF ToLower(platformStr.field) = windowsLower
                         THEN platformWindows ELSE platformLinux)
                   ELSE platformWindows,
      BrandName |-> brandChrome,
      SecBrandName |-> brandChrome]

\* parseUserAgent; panic: strings.Fields(match[1])[0] indexes an empty slice
parseUserAgent(ua) ==
  LET major == majorVersionMatch(ua)
      full == fullVersionMatch(ua)
      plat == platformMatch(ua)
      platformStr == FirstField(plat.group)
      MajorVersion == IF major.ok THEN major.group ELSE <<>>
      edge == Contains(ua, edgToken)
  IN [panic |-> plat.ok /\ ~platformStr.ok,
      UserAgent |-> ua,
      MajorVersion |-> MajorVersion,
      FullVersion |-> IF full.ok THEN full.group ELSE MajorVersion,
      Platform |-> IF plat.ok /\ platformStr.ok
                   THEN (IF ToLower(platformStr.field) = windowsLower
                         THEN platformWindows ELSE platformLinux)
                   ELSE platformWindows,
      BrandName |-> IF edge THEN brandEdge ELSE brandChrome,
      SecBrandName |-> IF edge THEN brandEdge ELSE brandChrome]

\* ` ;;:/??==()__-,."`
greaseChars == <<" ",";",";",":","/","?","?","=","=","(",")","_","_","-",",",".","\"">>
greaseVersions == <<<<"8">>, <<"2","4">>, <<"9","9">>, <<"9","9">>, <<"9","9">>, <<"9","9">>>>
baseBrand == <<"N","o","t"," ","A"," ","B","r","a","n","d">>

\* generateGreaseBrand with the draws v of the version and c1, c2 of the characters that
\* replace the two spaces
RECURSIVE replaceSpaces(_, _)
replaceSpaces(s, cs) ==
  IF s = <<>> THEN <<>>
  ELSE IF Head(s) = " "
       THEN <<greaseChars[Head(cs)]>> \o replaceSpaces(Tail(s), Tail(cs))
       ELSE <<Head(s)>> \o replaceSpaces(Tail(s), cs)

generateGreaseBrand(v, c1, c2) ==
  [brand |-> replaceSpaces(baseBrand, <<c1, c2>>), version |-> greaseVersions[v]]

screenResolution(w, h) == [Width |-> w, Height |-> h]
commonResolutions ==
  << screenResolution(1920, 1080), screenResolution(1366, 768), screenResolution(1536, 864),
     screenResolution(1280, 720), screenResolution(1440, 900), screenResolution(2560, 1440) >>
viewportHeightSubtractions_NoToolbar == <<0, 128, 150, 188>>
viewportHeightSubtractions == <<90, 128, 150, 188>>
viewportWidthSubtractions == <<2, 4, 64, 128>>

fallbackURL == <<"h","t","t","p","s",":","/","/","w","w","w",".","g","o","o","g","l","e",".","c","o","m","/","s","e","a","r","c","h","?","q","=">>
schemeSep == <<":","/","/">>
\* `"%s";v="%s", "Chromium";v="%s", "%s";v="%s"`
secChUaFormat ==
  <<"\"","%","s","\"",";","v","=","\"","%","s","\"",","," ","\"","C","h","r","o","m","i","u","m","\"",";","v","=","\"","%","s","\"",","," ","\"","%","s","\"",";","v","=","\"","%","s","\"">>
quotedFormat == <<"\"","%","s","\"">>
browserAccept ==
  <<"t","e","x","t","/","h","t","m","l",",","a","p","p","l","i","c","a","t","i","o","n","/","x",
    "h","t","m","l","+","x","m","l",",","a","p","p","l","i","c","a","t","i","o","n","/","x","m",
    "l",";","q","=","0",".","9",",","i","m","a","g","e","/","a","v","i","f",",","i","m","a","g",
    "e","/","w","e","b","p",",","i","m","a","g","e","/","a","p","n","g",",","*","/","*",";","q",
    "=","0",".","8",",","a","p","p","l","i","c","a","t","i","o","n","/","s","i","g","n","e","d",
    "-","e","x","c","h","a","n","g","e",";","v","=","b","3",";","q","=","0",".","7">>

\* the headers of GetHeaders that do not depend on the call
fixedHeaders ==
     ("accept" :> browserAccept)
  @@ ("accept-language" :> acceptLanguage)
  @@ ("connection" :> <<"k","e","e","p","-","a","l","i","v","e">>)
  @@ ("sec-ch-ua-mobile" :> <<"?","0">>)
  @@ ("sec-ch-ua-arch" :> <<"\"","x","8","6","\"">>)
  @@ ("sec-ch-ua-bitness" :> <<"\"","6","4","\"">>)
  @@ ("sec-ch-ua-form-factors" :> <<"\"","D","e","s","k","t","o","p","\"">>)
  @@ ("sec-ch-ua-platform-version" :> <<"\"","1","9",".","0",".","0","\"">>)
  @@ ("sec-ch-ua-model" :> <<"\"","\"">>)
  @@ ("sec-fetch-dest" :> <<"d","o","c","u","m","e","n","t">>)
  @@ ("sec-fetch-mode" :> <<"n","a","v","i","g","a","t","e">>)
  @@ ("sec-fetch-site" :> <<"s","a","m","e","-","o","r","i","g","i","n">>)
  @@ ("sec-fetch-user" :> <<"?","1">>)
  @@ ("upgrade-insecure-requests" :> <<"1">>)
  @@ ("priority" :> <<"u","=","0",","," ","i">>)

\* GetHeaders on the user agent ua returned by g.Get(), the arguments targetURL (a
\* sequence of at most one URL) and the draws of the GREASE brand (v, c1, c2), the
\* resolution (r) and the two subtractions (hs, ws)
originOf_Always(hasURL, referer) == referer

\* origin stays the empty string unless the caller's URL was parsed
originOf(hasURL, referer) == IF hasURL THEN referer ELSE <<>>

\* the URL the referer is taken from: the caller's when it is given and parses, the
\* fallback otherwise
refererURL(targetURL) ==
  LET given == Len(targetURL) > 0 /\ targetURL[1] # <<>>
      parsed == IF given THEN urlParse(targetURL[1]) ELSE ParseError
  IN IF given /\ ~parsed.err THEN [hasURL |-> TRUE, u |-> parsed]
     ELSE [hasURL |-> FALSE, u |-> urlParse(fallbackURL)]

\* the map GetHeaders builds from the parsed user agent, the URL, the GREASE brand and
\* the screen resolution it has drawn
headersOf(ua, info, target, grease, resolution, hs, ws) ==
  LET referer == target.u.Scheme \o schemeSep \o target.u.Host
      origin == originOf(target.hasURL, referer)
      secChUa == Sprintf(secChUaFormat, <<grease.brand, grease.version, info.MajorVersion,
                                          info.SecBrandName, info.MajorVersion>>)
      viewportHeight == Itoa(resolution.Height - viewportHeightSubtractions[hs])
      viewportWidth == Itoa(resolution.Width - viewportWidthSubtractions[ws])
      headers ==
        fixedHeaders
        @@ ("user-agent" :> ua)
        @@ ("referer" :> referer)
        @@ ("sec-ch-ua" :> secChUa)
        @@ ("sec-ch-ua-full-version" :> Sprintf(quotedFormat, <<info.FullVersion>>))
        @@ ("sec-ch-ua-platform" :> Sprintf(quotedFormat, <<info.Platform>>))
        @@ ("sec-ch-viewport-height" :> Sprintf(quotedFormat, <<viewportHeight>>))
        @@ ("sec-ch-viewport-width" :> Sprintf(quotedFormat, <<viewportWidth>>))
  IN IF info.panic THEN [panic |-> TRUE, headers |-> <<>>]
     ELSE [panic |-> FALSE,
           headers |-> IF origin # <<>> THEN headers @@ ("origin" :> origin) ELSE headers]

GetHeaders(ua, targetURL, v, c1, c2, r, hs, ws) ==
  headersOf(ua, parseUserAgent(ua), refererURL(targetURL), generateGreaseBrand(v, c1, c2),
            commonResolutions[r], hs, ws)


\* URLs a caller passes to GetHeaders
urlExample == <<"h","t","t","p","s",":","/","/","a","p","i",".","e","x","a","m","p","l","e",".","c","o","m","/","v","1","/","d","a","t","a">>
urlUpperPort == <<"H","T","T","P",":","/","/","E","x","a","m","p","l","e",".","c","o","m",":","8","0","8","0","/","x","?","y","=","1","#","z">>
urlNoScheme == <<":","f","o","o">>
urlSpaceInHost == <<"h","t","t","p",":","/","/","a"," ","b","/">>
urlPathOnly == <<"/","o","n","l","y","/","p","a","t","h">>
urlOpaque == <<"m","a","i","l","t","o",":","s","o","m","e","o","n","e">>
urlOpenBracket == <<"h","t","t","p",":","/","/","[",":",":","1">>
urlBadEscape == <<"h","t","t","p",":","/","/","h","/","%","z","z">>
urlBadPort == <<"h","t","t","p",":","/","/","h",":","8","0","a","/">>
urlColonSegment == <<"x"," ","y",":","z">>
urlControlChar == <<"h","t","t","p",":","/","/","h","/">> \o <<"\n">>
SampleURLs ==
  { <<>>, urlExample, urlUpperPort, urlNoScheme, urlSpaceInHost, urlPathOnly, urlOpaque,
    urlOpenBracket, urlBadEscape, urlBadPort, urlColonSegment, urlControlChar }
\* the variadic argument: absent, or one URL
TargetURLs == {<<>>} \cup { <<u>> : u \in SampleURLs }

\* i and coin are the draws of g.Get(), the rest those of GetHeaders itself
HeaderInput(i, coin, targetURL, v, c1, c2, r, hs, ws) ==
  [i |-> i, coin |-> coin, targetURL |-> targetURL, v |-> v, c1 |-> c1, c2 |-> c2, r |-> r,
   hs |-> hs, ws |-> ws]

\* The user agent with the URL, the GREASE brand and the viewport make up disjoint
\* headers: each of the three groups of inputs is taken over its whole range with the
\* other two at their first value (i ranges over the indices of the longest version set).
HeaderInputs ==
  { HeaderInput(d[1], d[2], d[3], 1, 1, 1, 1, 1, 1) : d \in (1..5) \X (0..1) \X TargetURLs }
  \cup { HeaderInput(1, d[1], <<>>, d[2], d[3], d[4], 1, 1, 1) :
           d \in (0..1) \X (1..Len(greaseVersions)) \X (1..Len(greaseChars))
                   \X (1..Len(greaseChars)) }
  \cup { HeaderInput(1, 0, <<>>, 1, 1, 1, d[1], d[2], d[3]) :
           d \in (1..Len(commonResolutions)) \X (1..Len(viewportHeightSubtractions))
                   \X (1..Len(viewportWidthSubtractions)) }
\* the inputs of GetHeaders in the specification of the whole generator
FewHeaderInputs ==
  { HeaderInput(1, d[1], d[2], 3, 2, 17, 2, 4, 3) : d \in (0..1) \X {<<>>, <<urlExample>>} }

CallGetHeaders(inputs) ==
  /\ Constructed /\ out = NoOutput
  /\ \E d \in inputs :
       /\ d.i \in Draws(Len(versions))
       /\ LET res == GetHeaders(Get(versions, d.i, d.coin, now), d.targetURL, d.v, d.c1,
                                d.c2, d.r, d.hs, d.ws)
          IN out' = [op |-> "GetHeaders", targetURL |-> d.targetURL,
                     object |-> headersMap(NewObject),
                     resolution |-> commonResolutions[d.r], panic |-> res.panic,
                     headers |-> res.headers]
  /\ UNCHANGED <<extVars, clockVars, configVars, fileVars, raceVars, genVars>>


------------------------------------------------------------------------------
(* The caller's use of the results *)

\* the caller keeps the result of its last call and goes on
KeepResult ==
  /\ out # NoOutput /\ held = NoOutput
  /\ held' = out
  /\ out' = NoOutput
  /\ UNCHANGED <<buffer, libVars, lockVars, clockVars, configVars, fileVars, raceVars, genVars>>

\* what the caller writes into a slice or a header value
tampered == <<"t","a","m","p","e","r","e","d">>
\* the caller's changes of a map: a value replaced, a key deleted, a key added
MapEdits == {"change", "delete", "add"}
EditMap(h, edit) ==
  CASE edit = "change" -> [h EXCEPT !["user-agent"] = tampered]
    [] edit = "delete" -> [k \in DOMAIN h \ {"accept"} |-> h[k]]
    [] edit = "add" -> h @@ ("x-added" :> tampered)

\* result after element k of the slice it refers to was overwritten, or after its map
\* was edited
Written(result, k, edit) ==
  IF result.op = "GetVersions"
  THEN [result EXCEPT !.versions[k] = tampered]
  ELSE [result EXCEPT !.headers = EditMap(result.headers, edit)]

\* the caller changes the slice or the map of the result it has kept; the write is seen
\* through every reference to the same object
CallerWrites ==
  /\ ObjectOf(held) # "none" /\ "written" \notin DOMAIN held
  /\ \E k \in 1..5, edit \in MapEdits :
       /\ held.op = "GetVersions" => k <= Len(held.versions) /\ edit = "change"
       /\ held.op # "GetVersions" => k = 1
       /\ held' = Written(held, k, edit) @@ ("written" :> TRUE)
       /\ out' = IF ObjectOf(out) = ObjectOf(held) THEN Written(out, k, edit) ELSE out
       /\ versions' = IF ObjectOf(held) = VersionsArray
                       THEN [versions EXCEPT ![k] = tampered] ELSE versions
  /\ UNCHANGED <<buffer, libVars, lockVars, clockVars, configVars, fileVars, raceVars, pc, ret,
                 installedBy>>

\* the caller lets go of the result it has kept
DropHeld ==
  /\ held # NoOutput
  /\ held' = NoOutput
  /\ UNCHANGED <<buffer, libVars, lockVars, clockVars, configVars, fileVars, raceVars, genVars, out>>

------------------------------------------------------------------------------
(* The C binding: JSON of a header map, the caller's buffer, the exported functions *)

\* the return codes of the exported functions
ErrSuccess == 0
ErrNotInitialized == -1
ErrJSONMarshal == -2
ErrUnknownCrawler == -3
ErrInitialization == -4
maxCInt == 2147483647

\* the characters encoding/json does not write as they are
jsonSpecial == {"\"", "\\", "<", ">", "&", InvalidByte} \cup CTL
u00 == <<"\\","u","0","0">>
jsonEscapeOf(c) ==
  CASE c = "\"" -> <<"\\", "\"">>
    [] c = "\\" -> <<"\\", "\\">>
    [] c = "\n" -> <<"\\", "n">>
    [] c = "\r" -> <<"\\", "r">>
    [] c = "\t" -> <<"\\", "t">>
    [] c = "<" -> u00 \o <<"3","c">>
    [] c = ">" -> u00 \o <<"3","e">>
    [] c = "&" -> u00 \o <<"2","6">>
    [] c = InvalidByte -> <<"\\","u","f","f","f","d">>

\* the text of s from position j on, escaped
RECURSIVE jsonEscape(_, _)
jsonEscape(s, j) ==
  LET k == Least({i \in j..Len(s) : s[i] \in jsonSpecial} \cup {Len(s) + 1})
  IN IF k > Len(s) THEN SubSeq(s, j, Len(s))
     ELSE SubSeq(s, j, k - 1) \o jsonEscapeOf(s[k]) \o jsonEscape(s, k + 1)

\* a JSON string
jsonString(s) == <<"\"">> \o jsonEscape(s, 1) \o <<"\"">>

\* the header names in the order encoding/json writes a map: sorted
Key(name, chars) == [name |-> name, chars |-> chars]
headerKeys ==
  <<
     Key("accept", <<"a","c","c","e","p","t">>),
     Key("accept-encoding", <<"a","c","c","e","p","t","-","e","n","c","o","d","i","n","g">>),
     Key("accept-language", <<"a","c","c","e","p","t","-","l","a","n","g","u","a","g","e">>),
     Key("connection", <<"c","o","n","n","e","c","t","i","o","n">>),
     Key("from", <<"f","r","o","m">>),
     Key("origin", <<"o","r","i","g","i","n">>),
     Key("priority", <<"p","r","i","o","r","i","t","y">>),
     Key("referer", <<"r","e","f","e","r","e","r">>),
     Key("sec-ch-ua", <<"s","e","c","-","c","h","-","u","a">>),
     Key("sec-ch-ua-arch", <<"s","e","c","-","c","h","-","u","a","-","a","r","c","h">>),
     Key("sec-ch-ua-bitness", <<"s","e","c","-","c","h","-","u","a","-","b","i","t","n","e","s","s">>),
     Key("sec-ch-ua-form-factors", <<"s","e","c","-","c","h","-","u","a","-","f","o","r","m","-","f","a","c","t","o","r","s">>),
     Key("sec-ch-ua-full-version", <<"s","e","c","-","c","h","-","u","a","-","f","u","l","l","-","v","e","r","s","i","o","n">>),
     Key("sec-ch-ua-mobile", <<"s","e","c","-","c","h","-","u","a","-","m","o","b","i","l","e">>),
     Key("sec-ch-ua-model", <<"s","e","c","-","c","h","-","u","a","-","m","o","d","e","l">>),
     Key("sec-ch-ua-platform", <<"s","e","c","-","c","h","-","u","a","-","p","l","a","t","f","o","r","m">>),
     Key("sec-ch-ua-platform-version", <<"s","e","c","-","c","h","-","u","a","-","p","l","a","t","f","o","r","m","-","v","e","r","s","i","o","n">>),
     Key("sec-ch-viewport-height", <<"s","e","c","-","c","h","-","v","i","e","w","p","o","r","t","-","h","e","i","g","h","t">>),
     Key("sec-ch-viewport-width", <<"s","e","c","-","c","h","-","v","i","e","w","p","o","r","t","-","w","i","d","t","h">>),
     Key("sec-fetch-dest", <<"s","e","c","-","f","e","t","c","h","-","d","e","s","t">>),
     Key("sec-fetch-mode", <<"s","e","c","-","f","e","t","c","h","-","m","o","d","e">>),
     Key("sec-fetch-site", <<"s","e","c","-","f","e","t","c","h","-","s","i","t","e">>),
     Key("sec-fetch-user", <<"s","e","c","-","f","e","t","c","h","-","u","s","e","r">>),
     Key("upgrade-insecure-requests", <<"u","p","g","r","a","d","e","-","i","n","s","e","c","u","r","e","-","r","e","q","u","e","s","t","s">>),
     Key("user-agent", <<"u","s","e","r","-","a","g","e","n","t">>) >>

\* the members of the map h from the k-th name on
RECURSIVE jsonMembers(_, _, _)
jsonMembers(h, k, first) ==
  IF k > Len(headerKeys) THEN <<>>
  ELSE IF headerKeys[k].name \notin DOMAIN h THEN jsonMembers(h, k + 1, first)
  ELSE (IF first THEN <<>> ELSE <<",">>)
       \o jsonString(headerKeys[k].chars) \o <<":">> \o jsonString(h[headerKeys[k].name])
       \o jsonMembers(h, k + 1, FALSE)

\* json.Marshal(headersMap)
jsonMarshal(h) == <<"{">> \o jsonMembers(h, 1, TRUE) \o <<"}">>

\* len(data): U+FFFD takes three bytes, every other character used here one
byteLen(data) == Len(data) + 2 * Cardinality({i \in 1..Len(data) : data[i] = ReplacementChar})

NUL == "\\x00"

\* copyToBuffer: the code returned and the buffer afterwards
copyToBuffer(data, buf, length) ==
  LET requiredSize == byteLen(data) + 1
  IN IF requiredSize > maxCInt THEN [code |-> maxCInt, buffer |-> buf]
     ELSE IF length < requiredSize THEN [code |-> requiredSize, buffer |-> buf]
     ELSE [code |-> byteLen(data), buffer |-> [written |-> TRUE, bytes |-> data \o <<NUL>>]]

\* the sizes of the buffers a caller passes: too small, large enough
Lengths == {64, 4096}

\* startLogProcessor: stopLogs is made and the goroutine started
startLogProcessor ==
  /\ stopLogs' = "open"
  /\ processorWG' = processorWG + 1
  /\ processor' = [pc |-> "select", msg |-> 0]

\* the function Initialize passes to initOnce.Do, up to its call of NewGenerator, run by
\* the call c
InitializeOnce(c) ==
  /\ initOnce = "idle"
  /\ initOnce' = "running"
  /\ logChannel' = <<>>
  /\ startLogProcessor
  /\ cacheOn' = c.useCache
  /\ ttl' = IF c.useCache THEN c.cacheTTLDays * 24 ELSE 0
  /\ pc' = "start"
  /\ tally' = [tally EXCEPT !.constructed = @ + 1, !.started = @ + 1, !.first = c]
  /\ UNCHANGED <<lockVars, callerVars, globalGenerator, initErr, shutdownOnce, cLogCallback,
                 droppedLogs, loggingDisabled, clockVars, run, timeout, fileVars, raceVars,
                 versions, ret, installedBy, out>>

\* the rest of that function: the results of NewGenerator are assigned, initOnce.Do returns
InitializeOnceEnd ==
  /\ initOnce = "running" /\ pc = "done"
  /\ globalGenerator' = (ret = "ok")
  /\ initErr' = (ret = "error")
  /\ initOnce' = "done"
  /\ UNCHANGED <<lockVars, callerVars, shutdownOnce, logVars, procVars, tally, clockVars,
                 configVars, fileVars, raceVars, genVars>>

\* Initialize: the first call enters initOnce.Do and starts NewGenerator
InitializeBegin(useCache, cacheTTLDays) ==
  /\ out = NoOutput
  /\ InitializeOnce([NoCall EXCEPT !.op = "Initialize", !.useCache = useCache,
                                   !.cacheTTLDays = cacheTTLDays])
  /\ UNCHANGED calls

\* NewGenerator has returned: its results are assigned, initOnce.Do and Initialize return
InitializeEnd ==
  /\ out = NoOutput
  /\ InitializeOnceEnd
  /\ out' = [op |-> "C.Initialize", first |-> TRUE,
             code |-> IF ret = "error" THEN ErrInitialization ELSE ErrSuccess]
  /\ UNCHANGED calls

\* Initialize called from several threads. A call enters Initialize and reaches
\* initOnce.Do
InitializeCall(t, useCache, cacheTTLDays) ==
  /\ calls[t] = NoCall
  /\ calls' = [calls EXCEPT ![t] = [NoCall EXCEPT !.pc = "once", !.op = "Initialize",
                                                  !.useCache = useCache,
                                                  !.cacheTTLDays = cacheTTLDays]]
  /\ UNCHANGED <<generatorVars, globalGenerator, initErr, initOnce, shutdownOnce, logVars,
                 procVars, tally>>

\* the call that finds initOnce unused runs the function
InitializeFirst(t) ==
  /\ calls[t].op = "Initialize" /\ calls[t].pc = "once"
  /\ InitializeOnce(calls[t])
  /\ calls' = [calls EXCEPT ![t].pc = "constructing"]

InitializeDone(t) ==
  /\ calls[t].op = "Initialize" /\ calls[t].pc = "constructing"
  /\ InitializeOnceEnd
  /\ calls' = [calls EXCEPT ![t].pc = "check"]
  /\ UNCHANGED out

onceDone_NoWait(once) == once # "idle"

\* sync.Once.Do returns to a caller that did not run the function once the function
\* has returned
onceDone(once) == once = "done"

InitializeSkip(t) ==
  /\ calls[t].op = "Initialize" /\ calls[t].pc = "once"
  /\ onceDone(initOnce)
  /\ calls' = [calls EXCEPT ![t].pc = "check"]
  /\ UNCHANGED <<generatorVars, globalGenerator, initErr, initOnce, shutdownOnce, logVars,
                 procVars, tally>>

\* if initErr != nil { return ErrInitialization }; return ErrSuccess
InitializeReturn(t) ==
  /\ calls[t].op = "Initialize" /\ calls[t].pc = "check"
  /\ LET code == IF initErr THEN ErrInitialization ELSE ErrSuccess IN
       /\ calls' = [calls EXCEPT ![t].pc = "returned", ![t].code = code]
       /\ tally' = [tally EXCEPT !.codes = @ \cup {code}]
  /\ UNCHANGED <<generatorVars, globalGenerator, initErr, initOnce, shutdownOnce, logVars,
                 procVars>>

\* the caller has its result and may call again
CallOver(t) ==
  /\ calls[t].pc = "returned"
  /\ calls' = [calls EXCEPT ![t] = NoCall]
  /\ UNCHANGED <<generatorVars, globalGenerator, initErr, initOnce, shutdownOnce, logVars,
                 procVars, tally>>

\* make(chan string, 100)
logChannelCap == 100
\* records passed to the handler in one run
MaxRecords == 2

\* SetLoggerCallback, under logMutex
SetLoggerCallback(callback) ==
  /\ cLogCallback # callback
  /\ cLogCallback' = callback
  /\ UNCHANGED <<generatorVars, globalGenerator, initErr, initOnce, shutdownOnce, logChannel,
                 droppedLogs, loggingDisabled, procVars, calls, tally>>

\* PythonLogHandler.Handle, called by a goroutine of the library that logs; the handler
\* exists once Initialize has made it. if loggingDisabled.Load() { return nil }
HandleBegin(t) ==
  /\ initOnce # "idle" /\ calls[t] = NoCall
  /\ loggingDisabled \/ tally.begun - tally.backlog < MaxRecords
  /\ IF loggingDisabled
     THEN /\ calls' = [calls EXCEPT ![t] = [NoCall EXCEPT !.op = "Handle", !.pc = "returned"]]
          /\ UNCHANGED tally
     ELSE /\ calls' = [calls EXCEPT ![t] = [NoCall EXCEPT !.op = "Handle", !.pc = "send",
                                                          !.msg = tally.begun + 1]]
          /\ tally' = [tally EXCEPT !.begun = @ + 1]
  /\ UNCHANGED <<generatorVars, globalGenerator, initErr, initOnce, shutdownOnce, logVars,
                 procVars>>

handleSelect_Uncounted(ch, msg) ==
  IF Len(ch) < logChannelCap
  THEN [logChannel |-> Append(ch, msg), dropped |-> 0]
  ELSE [logChannel |-> ch, dropped |-> 0]

\* select { case logChannel <- buf.String(): default: droppedLogs.Add(1) }
handleSelect(ch, msg) ==
  IF Len(ch) < logChannelCap
  THEN [logChannel |-> Append(ch, msg), dropped |-> 0]
  ELSE [logChannel |-> ch, dropped |-> 1]

\* the record is formatted and sent or dropped; a message carries the number of its
\* record and whether logging was disabled by the time it was sent
HandleSend(t) ==
  /\ calls[t].op = "Handle" /\ calls[t].pc = "send"
  /\ LET sel == handleSelect(logChannel, [id |-> calls[t].msg, late |-> loggingDisabled]) IN
       /\ logChannel' = sel.logChannel
       /\ droppedLogs' = droppedLogs + sel.dropped
       /\ tally' = [tally EXCEPT !.handled = @ + 1,
                                 !.enqueued = @ + Len(sel.logChannel) - Len(logChannel)]
  /\ calls' = [calls EXCEPT ![t].pc = "returned"]
  /\ UNCHANGED <<generatorVars, globalGenerator, initErr, initOnce, shutdownOnce, cLogCallback,
                 loggingDisabled, procVars>>

\* the goroutine of startLogProcessor. case msg, ok := <-logChannel
ProcessorReceive ==
  /\ processor.pc = "select" /\ logChannel # <<>>
  /\ processor' = [pc |-> "callback", msg |-> Head(logChannel).id]
  /\ logChannel' = Tail(logChannel)
  /\ UNCHANGED <<generatorVars, globalGenerator, initErr, initOnce, shutdownOnce, cLogCallback,
                 droppedLogs, loggingDisabled, stopLogs, processorWG, calls, tally>>

\* callback := cLogCallback under logMutex; a message is skipped when it is nil
ProcessorCallback ==
  /\ processor.pc = "callback"
  /\ processor' = IF cLogCallback THEN [processor EXCEPT !.pc = "call"]
                  ELSE [pc |-> "select", msg |-> 0]
  /\ UNCHANGED <<generatorVars, globalGenerator, initErr, initOnce, shutdownOnce, logVars,
                 stopLogs, processorWG, calls, tally>>

\* C.call_log_callback(callback, cMsg)
ProcessorInvoke ==
  /\ processor.pc = "call"
  /\ processor' = [pc |-> "select", msg |-> 0]
  /\ tally' = [tally EXCEPT !.late = @ \/ shutdownOnce = "done"]
  /\ UNCHANGED <<generatorVars, globalGenerator, initErr, initOnce, shutdownOnce, logVars,
                 stopLogs, processorWG, calls>>

\* case <-stopLogs: return, and the deferred processorWG.Done()
ProcessorStop ==
  /\ processor.pc = "select" /\ stopLogs = "closed"
  /\ processor' = [pc |-> "ended", msg |-> 0]
  /\ processorWG' = processorWG - 1
  /\ UNCHANGED <<generatorVars, globalGenerator, initErr, initOnce, shutdownOnce, logVars,
                 stopLogs, calls, tally>>

\* Shutdown: a call reaches shutdownOnce.Do
ShutdownCall(t) ==
  /\ calls[t] = NoCall
  /\ calls' = [calls EXCEPT ![t] = [NoCall EXCEPT !.op = "Shutdown", !.pc = "once"]]
  /\ UNCHANGED <<generatorVars, globalGenerator, initErr, initOnce, shutdownOnce, logVars,
                 procVars, tally>>

\* the call that finds shutdownOnce unused runs the function: loggingDisabled.Store(true)
ShutdownFirst(t) ==
  /\ calls[t].op = "Shutdown" /\ calls[t].pc = "once"
  /\ shutdownOnce = "idle"
  /\ shutdownOnce' = "running"
  /\ loggingDisabled' = TRUE
  /\ calls' = [calls EXCEPT ![t].pc = "clear"]
  /\ UNCHANGED <<generatorVars, globalGenerator, initErr, initOnce, cLogCallback, logChannel,
                 droppedLogs, procVars, tally>>

\* cLogCallback = nil under logMutex
ShutdownClear(t) ==
  /\ calls[t].op = "Shutdown" /\ calls[t].pc = "clear"
  /\ cLogCallback' = FALSE
  /\ calls' = [calls EXCEPT ![t].pc = "close"]
  /\ UNCHANGED <<generatorVars, globalGenerator, initErr, initOnce, shutdownOnce, logChannel,
                 droppedLogs, loggingDisabled, procVars, tally>>

\* if stopLogs != nil { close(stopLogs) }
ShutdownClose(t) ==
  /\ calls[t].op = "Shutdown" /\ calls[t].pc = "close"
  /\ stopLogs' = IF stopLogs # "nil" THEN "closed" ELSE stopLogs
  /\ calls' = [calls EXCEPT ![t].pc = "wait"]
  /\ UNCHANGED <<generatorVars, globalGenerator, initErr, initOnce, shutdownOnce, logVars,
                 processorWG, processor, tally>>

\* processorWG.Wait() returns, and with it the function, shutdownOnce.Do and Shutdown
ShutdownWait(t) ==
  /\ calls[t].op = "Shutdown" /\ calls[t].pc = "wait"
  /\ processorWG = 0
  /\ shutdownOnce' = "done"
  /\ calls' = [calls EXCEPT ![t].pc = "returned"]
  /\ UNCHANGED <<generatorVars, globalGenerator, initErr, initOnce, logVars, procVars, tally>>

\* a call that did not run the function returns once the function has returned
ShutdownSkip(t) ==
  /\ calls[t].op = "Shutdown" /\ calls[t].pc = "once"
  /\ onceDone(shutdownOnce)
  /\ calls' = [calls EXCEPT ![t].pc = "returned"]
  /\ UNCHANGED <<generatorVars, globalGenerator, initErr, initOnce, shutdownOnce, logVars,
                 procVars, tally>>

\* a later call of Initialize: initOnce.Do does nothing
InitializeAgain(useCache, cacheTTLDays) ==
  /\ initOnce = "done" /\ out = NoOutput
  /\ out' = [op |-> "C.Initialize", first |-> FALSE,
             code |-> IF initErr THEN ErrInitialization ELSE ErrSuccess]
  /\ UNCHANGED <<extVars, clockVars, configVars, fileVars, raceVars, genVars>>

notInitialized_Never(generator) == FALSE

\* globalGenerator == nil
notInitialized(generator) == ~generator

crawlerTypeOutside_UpTo3(crawlerType) == crawlerType < 0 \/ crawlerType > 3

\* crawlerType < 0 || crawlerType > 2
crawlerTypeOutside(crawlerType) == crawlerType < 0 \/ crawlerType > 2

\* the result of an exported call: whether it returned, the code it returned, the buffer
\* afterwards, and whether the generator was asked for a result
Returned(code, buf, generated) ==
  [returned |-> TRUE, code |-> code, buffer |-> buf, generated |-> generated]
\* a panic crosses the boundary of the binding and ends the process: nothing is returned
Panicked(buf) == [returned |-> FALSE, code |-> 0, buffer |-> buf, generated |-> TRUE]

\* the exported GetRandomUA with the draws of g.Get()
ExportedGetRandomUA(buf, length, i, coin) ==
  IF notInitialized(globalGenerator) THEN Returned(ErrNotInitialized, buf, FALSE)
  ELSE LET r == copyToBuffer(Get(versions, i, coin, now), buf, length)
       IN Returned(r.code, r.buffer, TRUE)

\* what follows the nil check of the exported GetHeaders
exportedHeaders(res, buf, length) ==
  IF res.panic THEN Panicked(buf)
  ELSE LET r == copyToBuffer(jsonMarshal(res.headers), buf, length)
       IN Returned(r.code, r.buffer, TRUE)

\* the exported GetHeaders; url is <<>> for NULL, and goURL is then the empty string
ExportedGetHeaders(url, buf, length, d) ==
  IF notInitialized(globalGenerator) THEN Returned(ErrNotInitialized, buf, FALSE)
  ELSE exportedHeaders(GetHeaders(Get(versions, d.i, d.coin, now),
                                  <<IF url = <<>> THEN <<>> ELSE url[1]>>,
                                  d.v, d.c1, d.c2, d.r, d.hs, d.ws), buf, length)

\* the exported GetCrawlerHeaders
ExportedGetCrawlerHeaders(crawlerType, buf, length) ==
  IF notInitialized(globalGenerator) THEN Returned(ErrNotInitialized, buf, FALSE)
  ELSE IF crawlerTypeOutside(crawlerType) THEN Returned(ErrUnknownCrawler, buf, FALSE)
  ELSE LET r == copyToBuffer(jsonMarshal(GetCrawlerHeaders(versions, crawlerType, now)),
                             buf, length)
       IN Returned(r.code, r.buffer, TRUE)

\* a call records what was passed and what came back
Called(op, arg, length, r) ==
  [op |-> op, arg |-> arg, length |-> length, returned |-> r.returned, code |-> r.code,
   generated |-> r.generated]

CallExportedGetRandomUA ==
  /\ out = NoOutput /\ buffer = Untouched
  /\ \E length \in Lengths, i \in Draws(Len(versions)), coin \in 0..1 :
       LET r == ExportedGetRandomUA(buffer, length, i, coin)
       IN /\ out' = Called("C.GetRandomUA", <<>>, length, r)
          /\ buffer' = r.buffer
  /\ UNCHANGED <<held, libVars, lockVars, clockVars, configVars, fileVars, raceVars, genVars>>

CallExportedGetHeaders ==
  /\ out = NoOutput /\ buffer = Untouched
  /\ \E length \in Lengths, d \in FewHeaderInputs :
       /\ d.i \in Draws(Len(versions))
       /\ LET r == ExportedGetHeaders(d.targetURL, buffer, length, d)
          IN /\ out' = Called("C.GetHeaders", d.targetURL, length, r)
             /\ buffer' = r.buffer
  /\ UNCHANGED <<held, libVars, lockVars, clockVars, configVars, fileVars, raceVars, genVars>>

CallExportedGetCrawlerHeaders ==
  /\ out = NoOutput /\ buffer = Untouched
  /\ \E length \in Lengths, crawlerType \in CrawlerTypes :
       LET r == ExportedGetCrawlerHeaders(crawlerType, buffer, length)
       IN /\ out' = Called("C.GetCrawlerHeaders", crawlerType, length, r)
          /\ buffer' = r.buffer
  /\ UNCHANGED <<held, libVars, lockVars, clockVars, configVars, fileVars, raceVars, genVars>>

\* the caller has read its buffer and allocates a new one for its next call
NewBuffer ==
  /\ buffer # Untouched
  /\ buffer' = Untouched
  /\ UNCHANGED <<held, libVars, lockVars, clockVars, configVars, fileVars, raceVars, genVars, out>>

------------------------------------------------------------------------------
(* g.mu: the steps of NewGenerator and of the callers around g.versions *)

muLock_None(m) == m

\* g.mu.Lock(), g.mu.Unlock(), g.mu.RLock(), g.mu.RUnlock()
muLock(m) == [m EXCEPT !.writer = TRUE]
muUnlock(m) == [m EXCEPT !.writer = FALSE]
muRLock(m) == [m EXCEPT !.readers = @ + 1]
muRUnlock(m) == [m EXCEPT !.readers = @ - 1]
\* Lock waits for every holder, RLock for an exclusive holder
CanLock(m) == ~m.writer /\ m.readers = 0
CanRLock(m) == ~m.writer

\* the goroutine that runs NewGenerator
Constructor == 0
Step(kind, by) == [kind |-> kind, by |-> by]

\* loadFromDiskCache up to its lock: os.ReadFile, json.Unmarshal and the checks
ReadCacheFile ==
  /\ pc = "start" /\ cacheOn
  /\ LET r == loadFromDiskCache(disk, now, ttl, versions) IN
       /\ pc' = IF r.loaded THEN "lock" ELSE "update"
       /\ local' = IF r.loaded THEN [by |-> "cache", versions |-> r.versions] ELSE local
  /\ lastStep' = Step("io", Constructor)
  /\ UNCHANGED <<callerVars, libVars, mu, threads, clockVars, configVars, fileVars, raceVars,
                 versions, ret, installedBy, out>>

\* the versions a fetcher can send on the result channel
FetchedVersions ==
  { [by |-> "google", versions |-> r.versions] : r \in { x \in GoogleResults : ~x.err } }
  \cup { [by |-> "microsoft", versions |-> r.versions] : r \in { x \in MSResults : ~x.err } }

\* updateVersions up to the case its select takes: the requests of the two fetchers end,
\* or the deadline passes
AwaitNetwork ==
  /\ \/ pc = "start" /\ ~cacheOn
     \/ pc = "update"
  /\ pc' = "lock"
  /\ local' \in FetchedVersions
               \cup {[by |-> "alldone", versions |-> <<>>], [by |-> "timeout", versions |-> <<>>]}
  /\ lastStep' = Step("io", Constructor)
  /\ UNCHANGED <<callerVars, libVars, mu, threads, clockVars, configVars, fileVars, raceVars,
                 versions, ret, installedBy, out>>

WriterLock ==
  /\ pc = "lock" /\ CanLock(mu)
  /\ mu' = muLock(mu)
  /\ pc' = "assign"
  /\ lastStep' = Step("lock", Constructor)
  /\ UNCHANGED <<callerVars, libVars, local, threads, clockVars, configVars, fileVars, raceVars,
                 versions, ret, installedBy, out>>

\* g.versions = cache.Versions, g.versions = versions, g.versions = g.approximateVersions()
WriterAssign ==
  /\ pc = "assign"
  /\ versions' = IF local.by \in {"alldone", "timeout"} THEN approximateVersions(now)
                 ELSE local.versions
  /\ installedBy' = local.by
  /\ pc' = "unlock"
  /\ lastStep' = Step("write", Constructor)
  /\ UNCHANGED <<callerVars, libVars, mu, local, threads, clockVars, configVars, fileVars,
                 raceVars, ret, out>>

\* after the unlock NewGenerator returns, or goes on to saveToDiskCache
WriterUnlock ==
  /\ pc = "unlock"
  /\ mu' = muUnlock(mu)
  /\ IF local.by # "cache" /\ cacheOn THEN pc' = "save" /\ ret' = ret
     ELSE pc' = "done" /\ ret' = "ok"
  /\ lastStep' = Step("unlock", Constructor)
  /\ UNCHANGED <<callerVars, libVars, local, threads, clockVars, configVars, fileVars, raceVars,
                 versions, installedBy, out>>

\* saveToDiskCache: versionsToCache := g.versions between RLock and RUnlock
SnapshotRLock ==
  /\ pc = "save" /\ CanRLock(mu)
  /\ mu' = muRLock(mu)
  /\ pc' = "save_read"
  /\ lastStep' = Step("rlock", Constructor)
  /\ UNCHANGED <<callerVars, libVars, local, threads, clockVars, configVars, fileVars, raceVars,
                 versions, ret, installedBy, out>>

SnapshotRead ==
  /\ pc = "save_read"
  /\ local' = [by |-> "save", versions |-> versions]
  /\ pc' = "save_runlock"
  /\ lastStep' = Step("read", Constructor)
  /\ UNCHANGED <<callerVars, libVars, mu, threads, clockVars, configVars, fileVars, raceVars,
                 versions, ret, installedBy, out>>

SnapshotRUnlock ==
  /\ pc = "save_runlock"
  /\ mu' = muRUnlock(mu)
  /\ pc' = "save_io"
  /\ lastStep' = Step("runlock", Constructor)
  /\ UNCHANGED <<callerVars, libVars, local, threads, clockVars, configVars, fileVars, raceVars,
                 versions, ret, installedBy, out>>

\* the rest of saveToDiskCache: json.Marshal and the temporary file renamed to the cache
\* path, or an error on the way that leaves the cache path as it was
SnapshotWrite(ok) ==
  /\ pc = "save_io"
  /\ disk' = IF ok /\ Len(local.versions) > 0 THEN Marshal(now, local.versions) ELSE disk
  /\ pc' = "done"
  /\ ret' = "ok"
  /\ lastStep' = Step("io", Constructor)
  /\ UNCHANGED <<callerVars, libVars, mu, local, threads, clockVars, configVars, tmp, saveData,
                 saved, raceVars, versions, installedBy, out>>

\* the methods that read g.versions; GetHeaders reads it through Get
ReaderCalls == {"Get", "GetVersions", "GetCrawlerHeaders"}

\* a generator that was declared and not constructed: the zero value of Generator
ZeroValue == pc = "zero" /\ versions = <<>>

\* a caller enters a method of the generator it holds, with the crawler type it passes
\* where the method takes one: g.mu.RLock()
ReaderRLock(t, op, crawlerType) ==
  /\ Constructed \/ ZeroValue
  /\ threads[t] = Idle /\ CanRLock(mu)
  /\ op # "GetCrawlerHeaders" => crawlerType = 0
  /\ mu' = muRLock(mu)
  /\ threads' = [threads EXCEPT ![t] = [Idle EXCEPT !.pc = "locked", !.op = op,
                                                    !.arg = crawlerType]]
  /\ lastStep' = Step("rlock", t)
  /\ UNCHANGED <<callerVars, libVars, local, clockVars, configVars, fileVars, raceVars,
                 genVars, out>>

\* a variant that takes the last version of the set
latestVersion_Last(vs) == IF Len(vs) = 0 THEN <<>> ELSE <<vs[Len(vs)]>>

\* GetCrawlerHeaders: g.versions[0] unless len(g.versions) == 0
latestVersion(vs) == IF Len(vs) = 0 THEN <<>> ELSE <<vs[1]>>

\* what the method reads of g.versions: its length and an element, every element, or
\* the first element
ReaderRead(t) ==
  /\ threads[t].pc = "locked"
  /\ threads' = [threads EXCEPT ![t].pc = "read",
                                ![t].seen = IF threads[t].op = "GetCrawlerHeaders"
                                            THEN latestVersion(versions) ELSE versions]
  /\ lastStep' = Step("read", t)
  /\ UNCHANGED <<callerVars, libVars, mu, local, clockVars, configVars, fileVars, raceVars,
                 genVars, out>>

\* g.mu.RUnlock(): deferred in Get and GetVersions, which then return; GetCrawlerHeaders
\* unlocks before it calls getCrawlerHeadersWithVersion
ReaderRUnlock(t) ==
  /\ threads[t].pc = "read"
  /\ mu' = muRUnlock(mu)
  /\ threads' = IF threads[t].op = "GetCrawlerHeaders"
                THEN [threads EXCEPT ![t].pc = "build"]
                ELSE [threads EXCEPT ![t] = Idle]
  /\ lastStep' = Step("runlock", t)
  /\ UNCHANGED <<callerVars, libVars, local, clockVars, configVars, fileVars, raceVars,
                 genVars, out>>

\* GetCrawlerHeaders after its unlock: the headers for the version it has read, or for
\* the approximation when it found g.versions empty
ReaderBuild(t) ==
  /\ threads[t].pc = "build"
  /\ threads' = [threads EXCEPT ![t].pc = "returned",
                                ![t].result = GetCrawlerHeaders(threads[t].seen,
                                                                threads[t].arg, now)]
  /\ UNCHANGED <<callerVars, libVars, mu, local, lastStep, clockVars, configVars, fileVars,
                 raceVars, genVars, out>>

\* the caller has the headers and is ready for its next call
ReaderReturn(t) ==
  /\ threads[t].pc = "returned"
  /\ threads' = [threads EXCEPT ![t] = Idle]
  /\ UNCHANGED <<callerVars, libVars, mu, local, lastStep, clockVars, configVars, fileVars,
                 raceVars, genVars, out>>

------------------------------------------------------------------------------
(* The generator: construction, the race of the fetchers, the cache and the calls *)

Next ==
  \/ LoadCache
  \/ StartUpdate
  \/ Deadline
  \/ GoogleFetch
  \/ GoogleSend
  \/ MicrosoftFetch
  \/ MicrosoftSend
  \/ Watcher
  \/ SelectResult
  \/ SelectAllDone
  \/ SelectTimeout
  \/ \E marshalOK \in BOOLEAN, createOK \in BOOLEAN : SaveBegin(marshalOK, createOK)
  \/ SaveWriteProgress
  \/ \E ok \in BOOLEAN : SaveWrite(ok)
  \/ \E ok \in BOOLEAN : SaveClose(ok)
  \/ \E ok \in BOOLEAN : SaveRename(ok)
  \/ Crash
  \/ Restart
  \/ Tick
  \/ CallGet
  \/ CallGetVersions
  \/ CallGetCrawlerHeaders
  \/ CallGetHeaders(FewHeaderInputs)
  \/ DropResult

Spec == Init /\ [][Next]_vars

------------------------------------------------------------------------------
(* Header synthesis on a constructed generator *)

\* version sets a generator constructed without a cache can hold: the result of a
\* fetcher, or the approximation
HeaderVersionSets ==
  { r.versions : r \in { x \in GoogleResults \cup MSResults : ~x.err } }
  \cup { approximateVersions(100) }

\* NewGenerator has returned and the goroutines of updateVersions have ended
InitHeaders ==
  /\ now = 100
  /\ ticks = 0
  /\ run = 1
  /\ timeout = defaultTimeout
  /\ cacheOn = FALSE /\ ttl = 0
  /\ disk = NoFile /\ tmp = NoFile /\ saveData = NoFile
  /\ versions \in HeaderVersionSets
  /\ pc = "done" /\ ret = "ok"
  /\ ctx = "done"
  /\ resultsChan = <<>>
  /\ gpc = "done" /\ gres = <<>>
  /\ mpc = "done" /\ mres = <<>>
  /\ wg = 0
  /\ allNetworkDone = TRUE
  /\ installedBy = "none"
  /\ saved = NothingSaved
  /\ out = NoOutput
  /\ InitCaller /\ InitLibrary /\ InitMutex

NextHeaders ==
  \/ CallGetHeaders(HeaderInputs)
  \/ DropResult

SpecHeaders == InitHeaders /\ [][NextHeaders]_vars

\* approximateVersionForDate on the dates around the anchor; now stands for d
DateInputs == { 24 * day : day \in (-ApproxDays)..ApproxDays }

InitApprox ==
  /\ now \in DateInputs
  /\ ticks = 0
  /\ run = 1
  /\ timeout = defaultTimeout
  /\ cacheOn = FALSE /\ ttl = 0
  /\ disk = NoFile /\ tmp = NoFile /\ saveData = NoFile
  /\ versions = <<>>
  /\ pc = "idle" /\ ret = "none"
  /\ ctx = "none"
  /\ resultsChan = <<>>
  /\ gpc = "idle" /\ gres = <<>>
  /\ mpc = "idle" /\ mres = <<>>
  /\ wg = 0
  /\ allNetworkDone = FALSE
  /\ installedBy = "none"
  /\ saved = NothingSaved
  /\ out = NoOutput
  /\ InitCaller /\ InitLibrary /\ InitMutex

CallApproximateVersionForDate ==
  /\ out = NoOutput
  /\ out' = [op |-> "approximateVersionForDate", d |-> now,
             version |-> approximateVersionForDate(now)]
  /\ UNCHANGED <<extVars, clockVars, configVars, fileVars, raceVars, genVars>>

NextApprox ==
  \/ CallApproximateVersionForDate
  \/ DropResult

SpecApprox == InitApprox /\ [][NextApprox]_vars

\* the library before Initialize: no generator, and a cache file or none at the path
InitC ==
  /\ now = 100
  /\ ticks = 0
  /\ run = 1
  /\ timeout = defaultTimeout
  /\ cacheOn = FALSE /\ ttl = 0
  /\ disk \in {NoFile, Marshal(now - TickHours, CachedVersions), Marshal(now, CachedVersions)}
  /\ tmp = NoFile /\ saveData = NoFile
  /\ versions = <<>>
  /\ pc = "idle" /\ ret = "none"
  /\ ctx = "none"
  /\ resultsChan = <<>>
  /\ gpc = "idle" /\ gres = <<>>
  /\ mpc = "idle" /\ mres = <<>>
  /\ wg = 0
  /\ allNetworkDone = FALSE
  /\ installedBy = "none"
  /\ saved = NothingSaved
  /\ out = NoOutput
  /\ InitCaller /\ InitLibrary /\ InitMutex

\* the C binding: Initialize runs NewGenerator, the exported functions are called at
\* any moment
NextC ==
  \/ \E useCache \in BOOLEAN : InitializeBegin(useCache, 1)
  \/ LoadCache
  \/ StartUpdate
  \/ Deadline
  \/ GoogleFetch
  \/ GoogleSend
  \/ MicrosoftFetch
  \/ MicrosoftSend
  \/ Watcher
  \/ SelectResult
  \/ SelectAllDone
  \/ SelectTimeout
  \/ \E marshalOK \in BOOLEAN, createOK \in BOOLEAN : SaveBegin(marshalOK, createOK)
  \/ SaveWriteProgress
  \/ \E ok \in BOOLEAN : SaveWrite(ok)
  \/ \E ok \in BOOLEAN : SaveClose(ok)
  \/ \E ok \in BOOLEAN : SaveRename(ok)
  \/ InitializeEnd
  \/ \E useCache \in BOOLEAN : InitializeAgain(useCache, 1)
  \/ CallExportedGetRandomUA
  \/ CallExportedGetHeaders
  \/ CallExportedGetCrawlerHeaders
  \/ NewBuffer
  \/ DropResult

SpecC == InitC /\ [][NextC]_vars

\* NewGenerator step by step around g.mu, then callers in their threads
NextLock ==
  \/ ReadCacheFile
  \/ AwaitNetwork
  \/ WriterLock
  \/ WriterAssign
  \/ WriterUnlock
  \/ SnapshotRLock
  \/ SnapshotRead
  \/ SnapshotRUnlock
  \/ \E ok \in BOOLEAN : SnapshotWrite(ok)
  \/ \E t \in Threads, op \in ReaderCalls : ReaderRLock(t, op, 0)
  \/ \E t \in Threads : ReaderRead(t)
  \/ \E t \in Threads : ReaderRUnlock(t)
  \/ \E t \in Threads : ReaderBuild(t)
  \/ \E t \in Threads : ReaderReturn(t)

SpecLock == Init /\ [][NextLock]_vars

\* a generator that NewGenerator returned, or the zero value of Generator, at an instant
\* before or after the anchor of the approximation
InitCrawler ==
  /\ now \in {-2400} \cup StartTimes
  /\ ticks = 0
  /\ run = 1
  /\ timeout = defaultTimeout
  /\ cacheOn = FALSE /\ ttl = 0
  /\ disk = NoFile /\ tmp = NoFile /\ saveData = NoFile
  /\ versions \in HeaderVersionSets \cup {<<>>}
  /\ pc = (IF versions = <<>> THEN "zero" ELSE "done")
  /\ ret = (IF versions = <<>> THEN "none" ELSE "ok")
  /\ ctx = "none"
  /\ resultsChan = <<>>
  /\ gpc = "idle" /\ gres = <<>>
  /\ mpc = "idle" /\ mres = <<>>
  /\ wg = 0
  /\ allNetworkDone = FALSE
  /\ installedBy = "none"
  /\ saved = NothingSaved
  /\ out = NoOutput
  /\ InitCaller /\ InitLibrary /\ InitMutex

\* callers of GetCrawlerHeaders in their threads
NextCrawler ==
  \/ \E t \in Threads, crawlerType \in CrawlerTypes :
       ReaderRLock(t, "GetCrawlerHeaders", crawlerType)
  \/ \E t \in Threads : ReaderRead(t)
  \/ \E t \in Threads : ReaderRUnlock(t)
  \/ \E t \in Threads : ReaderBuild(t)
  \/ \E t \in Threads : ReaderReturn(t)

SpecCrawler == InitCrawler /\ [][NextCrawler]_vars

\* one construction, from the call of NewGenerator to its return and the end of the
\* goroutines it leaves behind
NextConstruct ==
  \/ LoadCache
  \/ StartUpdate
  \/ Deadline
  \/ GoogleFetch
  \/ GoogleSend
  \/ MicrosoftFetch
  \/ MicrosoftSend
  \/ Watcher
  \/ SelectResult
  \/ SelectAllDone
  \/ SelectTimeout
  \/ \E marshalOK \in BOOLEAN, createOK \in BOOLEAN : SaveBegin(marshalOK, createOK)
  \/ SaveWriteProgress
  \/ \E ok \in BOOLEAN : SaveWrite(ok)
  \/ \E ok \in BOOLEAN : SaveClose(ok)
  \/ \E ok \in BOOLEAN : SaveRename(ok)

\* NewGenerator with WithHTTPClient: the client of the default, and a client whose
\* Timeout is zero
Timeouts == {0, defaultTimeout}

InitTimeout ==
  /\ now \in StartTimes
  /\ ticks = 0
  /\ run = 1
  /\ timeout \in Timeouts
  /\ cacheOn \in BOOLEAN
  /\ ttl \in (IF cacheOn THEN TTLs ELSE {0})
  /\ disk \in (IF cacheOn THEN InitialFiles(now) ELSE {NoFile})
  /\ tmp = NoFile
  /\ saveData = NoFile
  /\ versions = <<>>
  /\ pc = "start"
  /\ ret = "none"
  /\ ctx = "none"
  /\ resultsChan = <<>>
  /\ gpc = "idle" /\ gres = <<>>
  /\ mpc = "idle" /\ mres = <<>>
  /\ wg = 0
  /\ allNetworkDone = FALSE
  /\ installedBy = "none"
  /\ saved = NothingSaved
  /\ out = NoOutput
  /\ InitCaller /\ InitLibrary /\ InitMutex

SpecTimeout == InitTimeout /\ [][NextConstruct]_vars

\* the goroutine of NewGenerator keeps running, and a select with a ready case takes one
CoordinatorRuns ==
  /\ WF_vars(LoadCache)
  /\ WF_vars(StartUpdate)
  /\ WF_vars(SelectResult \/ SelectAllDone \/ SelectTimeout)

\* the timer of context.WithTimeout fires; the fetchers may never end
SpecTimer ==
  Init /\ [][NextConstruct]_vars /\ CoordinatorRuns /\ WF_vars(Deadline)

\* a request ends once the shared context is done; a goroutine that can take a step
\* takes it
SpecGoroutines ==
  /\ Init /\ [][NextConstruct]_vars /\ CoordinatorRuns /\ WF_vars(Deadline)
  /\ WF_vars(ctx = "done" /\ GoogleFetch) /\ WF_vars(ctx = "done" /\ MicrosoftFetch)
  /\ WF_vars(GoogleSend) /\ WF_vars(MicrosoftSend)
  /\ WF_vars(Watcher)

\* The pages of the Microsoft repository that fetchMicrosoftVersions is applied to: every
\* page of at most MSPageLen entries over a few file names and dates, and long pages of
\* more than versionsToKeepFromMS versions
MSPageLen == 3
MSLongPage == 22

\* the file name of the package of the k-th version
msFileName(k) == msPrefix \o Itoa(100 + k) \o <<".","0",".","0",".","0">> \o msRevision \o msSuffix
\* the entries short pages are made of: three versions, two dates, a date that does not parse
MSEntries ==
  { Match(msFileName(d[1]), TRUE, d[2]) : d \in (1..3) \X {10, 20} }
  \cup { Match(msFileName(k), FALSE, 0) : k \in 1..3 }
MSShortPages == UNION { [1..n -> MSEntries] : n \in 0..MSPageLen }
\* MSLongPage versions, and more entries than that with versions that repeat, in an
\* order of the page that is not the order of the dates
MSLongPages ==
  { [i \in 1..MSLongPage |-> Match(msFileName(i), TRUE, (i * 7) % (MSLongPage + 1))],
    [i \in 1..(MSLongPage + 3) |->
       Match(msFileName(i % MSLongPage), TRUE, (i * 7) % (MSLongPage + 4))] }
MSPages ==
  { MSResponse(FALSE, 200, TRUE, page, FALSE) : page \in MSShortPages \cup MSLongPages }
  \cup { MSResponse(TRUE, 0, FALSE, <<>>, FALSE),
         MSResponse(FALSE, 404, TRUE, MSMatchesPage, FALSE),
         MSResponse(FALSE, 200, FALSE, <<>>, FALSE),
         MSResponse(FALSE, 200, TRUE, MSMatchesPage, TRUE) }

CallFetchMicrosoftVersions ==
  /\ out = NoOutput
  /\ \E r \in MSPages : \E res \in fetchMicrosoftVersions(r) :
       out' = [op |-> "fetchMicrosoftVersions", response |-> r, result |-> res]
  /\ UNCHANGED <<extVars, clockVars, configVars, fileVars, raceVars, genVars>>

NextMS ==
  \/ CallFetchMicrosoftVersions
  \/ DropResult

\* fetchMicrosoftVersions on its own, as the goroutine of updateVersions calls it; it reads
\* nothing of the generator and not the clock
InitPure == InitApprox /\ now = 0

SpecMS == InitPure /\ [][NextMS]_vars

\* The strings parseUserAgent is applied to: every string of at most MaxUALen characters
\* that the three expressions and strings.Fields tell apart, what Get returns, and
\* strings of other browsers and platforms
MaxUALen == 3
UAChars == {"(", ";", " ", "x", "1"}
UAShort == UNION { [1..n -> UAChars] : n \in 0..MaxUALen }
UAOfGet ==
  { Get(vs, i, coin, 0) : vs \in HeaderVersionSets, i \in 1..2, coin \in 0..1 }
UAOthers ==
  { <<"(","X","1","1",";"," ","L","i","n","u","x",")"," ">> \o chromeToken \o <<"1","3","1">>,
    <<"(","W","I","N","D","O","W","S"," ","N","T",";",")"," ">> \o chromeToken
      \o <<"1",".","2",".","3",".","4"," ">> \o edgToken \o <<"1">>,
    <<"(","\t",";",")"," ">> \o chromeToken \o <<"1",".","2",".","3">>,
    chromeToken \o <<"x"," ">> \o chromeToken \o <<"7",".","0",".","0",".","1","(">> }
UAInputs == UAShort \cup UAOfGet \cup UAOthers

CallParseUserAgent ==
  /\ out = NoOutput
  /\ \E ua \in UAInputs :
       out' = [op |-> "parseUserAgent", ua |-> ua, info |-> parseUserAgent(ua)]
  /\ UNCHANGED <<extVars, clockVars, configVars, fileVars, raceVars, genVars>>

NextUA ==
  \/ CallParseUserAgent
  \/ DropResult

\* parseUserAgent on its own
SpecUA == InitPure /\ [][NextUA]_vars

\* Initialize called by several threads at once and again after it has returned
InitArgs == {<<FALSE, 0>>, <<TRUE, 1>>}

NextInit ==
  \/ \E t \in Threads, a \in InitArgs : InitializeCall(t, a[1], a[2])
  \/ \E t \in Threads : InitializeFirst(t)
  \/ LoadCache
  \/ StartUpdate
  \/ Deadline
  \/ GoogleFetch
  \/ GoogleSend
  \/ MicrosoftFetch
  \/ MicrosoftSend
  \/ Watcher
  \/ SelectResult
  \/ SelectAllDone
  \/ SelectTimeout
  \/ \E marshalOK \in BOOLEAN, createOK \in BOOLEAN : SaveBegin(marshalOK, createOK)
  \/ SaveWriteProgress
  \/ \E ok \in BOOLEAN : SaveWrite(ok)
  \/ \E ok \in BOOLEAN : SaveClose(ok)
  \/ \E ok \in BOOLEAN : SaveRename(ok)
  \/ \E t \in Threads : InitializeDone(t)
  \/ \E t \in Threads : InitializeSkip(t)
  \/ \E t \in Threads : InitializeReturn(t)
  \/ \E t \in Threads : CallOver(t)

SpecInit == InitC /\ [][NextInit]_vars

\* The log handler, the log processor and Shutdown after Initialize has returned: the
\* generator is constructed, the processor runs, and the records handled so far are
\* still in logChannel, none or as many as it can hold
Backlogs == {0, logChannelCap}

InitLog ==
  /\ now = 100
  /\ ticks = 0
  /\ run = 1
  /\ timeout = defaultTimeout
  /\ cacheOn = FALSE /\ ttl = 0
  /\ disk = NoFile /\ tmp = NoFile /\ saveData = NoFile
  /\ versions = approximateVersions(now)
  /\ pc = "done" /\ ret = "ok"
  /\ ctx = "done"
  /\ resultsChan = <<>>
  /\ gpc = "done" /\ gres = <<>>
  /\ mpc = "done" /\ mres = <<>>
  /\ wg = 0
  /\ allNetworkDone = TRUE
  /\ installedBy = "alldone"
  /\ saved = NothingSaved
  /\ out = NoOutput
  /\ InitCaller /\ InitMutex
  /\ globalGenerator = TRUE /\ initErr = FALSE /\ initOnce = "done"
  /\ shutdownOnce = "idle"
  /\ cLogCallback \in BOOLEAN
  /\ \E k \in Backlogs :
       /\ logChannel = [i \in 1..k |-> [id |-> i, late |-> FALSE]]
       /\ tally = [NoTally EXCEPT !.constructed = 1, !.started = 1, !.backlog = k,
                                  !.begun = k, !.handled = k, !.enqueued = k]
  /\ stopLogs = "open"
  /\ processorWG = 1
  /\ droppedLogs = 0
  /\ loggingDisabled = FALSE
  /\ processor = [pc |-> "select", msg |-> 0]
  /\ calls = [t \in Threads |-> NoCall]

NextLog ==
  \/ \E callback \in BOOLEAN : SetLoggerCallback(callback)
  \/ \E t \in Threads : HandleBegin(t)
  \/ \E t \in Threads : HandleSend(t)
  \/ ProcessorReceive
  \/ ProcessorCallback
  \/ ProcessorInvoke
  \/ ProcessorStop
  \/ \E t \in Threads : ShutdownCall(t)
  \/ \E t \in Threads : ShutdownFirst(t)
  \/ \E t \in Threads : ShutdownClear(t)
  \/ \E t \in Threads : ShutdownClose(t)
  \/ \E t \in Threads : ShutdownWait(t)
  \/ \E t \in Threads : ShutdownSkip(t)
  \/ \E t \in Threads : CallOver(t)

SpecLog == InitLog /\ [][NextLog]_vars

\* Get on generators with and without versions: one that NewGenerator returned, and the
\* zero value of Generator, whose version set is empty
CallGetAny ==
  /\ (Constructed \/ ZeroValue) /\ out = NoOutput
  /\ \E i \in Draws(Len(versions)), coin \in 0..1 :
       out' = [op |-> "Get", ua |-> Get(versions, i, coin, now)]
  /\ UNCHANGED <<extVars, clockVars, configVars, fileVars, raceVars, genVars>>

NextGet ==
  \/ CallGetAny
  \/ DropResult
  \/ Tick

SpecGet == InitCrawler /\ [][NextGet]_vars

\* a constructed generator and a caller that keeps and changes what it was returned
NextCaller ==
  \/ CallGet
  \/ CallGetVersions
  \/ CallGetCrawlerHeaders
  \/ CallGetHeaders(FewHeaderInputs)
  \/ KeepResult
  \/ CallerWrites
  \/ DropHeld
  \/ DropResult

SpecCaller == InitHeaders /\ [][NextCaller]_vars

------------------------------------------------------------------------------
(* Properties *)

\* the coordinator leaves its select in this step
Selects == pc = "select" /\ pc' # "select"
\* NewGenerator's loadFromDiskCache returns in this step
Loads == pc = "start" /\ cacheOn /\ pc' # "start"

\* C1: NewGenerator never returns an error: whatever the cache holds, whatever step of
\* the save fails and whatever the two fetchers do, it returns the generator.
C1_NewGeneratorNeverFails == ret # "error" /\ (pc = "done" => ret = "ok")

\* NewGenerator has returned after the deadline passed with the Google request still
\* running, and with the cache enabled but no record saved
C1_Witness ==
  /\ pc = "done" /\ ret = "ok" /\ installedBy = "timeout"
  /\ gpc = "fetch" /\ cacheOn /\ ~saved.done

\* C2: once NewGenerator has returned, the version set is non-empty, whichever tier
\* supplied it, and it stays non-empty under the calls made on the generator.
C2_VersionSetNonEmpty == Constructed => Len(versions) > 0

\* a call has been answered by a generator whose version set came from the cache
C2_Witness == Constructed /\ installedBy = "cache" /\ out.op = "GetVersions"

\* C3: when exactly one fetcher has delivered its result before the deadline and the
\* other request is still hanging, the coordinator installs the delivered result.
C3_RaceSemantics ==
  [][(/\ Selects
      /\ Len(resultsChan) = 1 /\ resultsChan[1].timely
      /\ \/ resultsChan[1].source = "google" /\ mpc = "fetch"
         \/ resultsChan[1].source = "microsoft" /\ gpc = "fetch")
     => versions' = resultsChan[1].versions]_vars

\* C4: whenever a fetcher has delivered its result before the deadline, that result is
\* what the coordinator installs; the approximation is installed only when nothing
\* was delivered in time.
C4_DeliveredResultInstalled ==
  [][(Selects /\ resultsChan # <<>> /\ Head(resultsChan).timely)
     => versions' = Head(resultsChan).versions]_vars

\* C5: when both fetchers have failed, the coordinator installs the five approximated
\* versions of today and of 7, 14, 21 and 28 days before, in that order, and
\* updateVersions returns nil.
C5_TotalFailureInstallsApproximation ==
  [][(Selects /\ gpc = "done" /\ mpc = "done" /\ resultsChan = <<>>)
     => /\ versions' = << approximateVersionForDate(now),
                          approximateVersionForDate(now - 7 * 24),
                          approximateVersionForDate(now - 14 * 24),
                          approximateVersionForDate(now - 21 * 24),
                          approximateVersionForDate(now - 28 * 24) >>
        /\ ret' # "error"
        /\ pc' \in {"save", "done"}]_vars

\* both fetchers finished without a result and the approximation was installed
C5_Witness ==
  /\ installedBy = "alldone" /\ resultsChan = <<>> /\ gpc = "done" /\ mpc = "done"
  /\ Len(versions) = 5

\* C6, as stated: a load that follows a completed save within the TTL returns true and
\* leaves the version set that was saved.
C6_RoundTripExact ==
  [][(Loads /\ saved.done /\ now - saved.timestamp <= ttl)
     => (pc' = "done" /\ versions' = saved.versions)]_vars

\* s as read back from the cache: the same characters, except that a byte that is not
\* valid UTF-8 comes back as U+FFFD
ReadsBackAs(s, t) ==
  /\ Len(t) = Len(s)
  /\ \A k \in 1..Len(s) :
       \/ s[k] # InvalidByte /\ t[k] = s[k]
       \/ s[k] = InvalidByte /\ t[k] = ReplacementChar

\* C6, amended: a load that follows a completed save within the TTL returns true and
\* leaves as many versions in the same order, each equal to the saved one except that
\* bytes that are not valid UTF-8 are replaced by U+FFFD.
C6_RoundTrip ==
  [][(Loads /\ saved.done /\ now - saved.timestamp <= ttl)
     => /\ pc' = "done"
        /\ Len(versions') = Len(saved.versions)
        /\ \A i \in 1..Len(saved.versions) : ReadsBackAs(saved.versions[i], versions'[i])]_vars

\* a second generator has loaded the record the first one saved
C6_Witness == run = 2 /\ saved.done /\ installedBy = "cache" /\ pc = "done"

\* C7: loadFromDiskCache returns true exactly when the file is a readable record whose
\* age is at most the TTL and whose list is non-empty; then the version set becomes the
\* record's list, otherwise it is left as it was; no error is returned either way.
C7_LoadContract ==
  [][Loads =>
       LET valid == /\ disk.kind = "json"
                    /\ now - disk.timestamp <= ttl
                    /\ Len(disk.versions) > 0
       IN /\ (pc' = "done") <=> valid
          /\ valid => versions' = disk.versions
          /\ ~valid => versions' = versions /\ pc' = "update"
          /\ ret' # "error"]_vars

\* a record exactly as old as the TTL has been loaded
C7_Witness ==
  /\ installedBy = "cache" /\ disk.kind = "json" /\ now - disk.timestamp = ttl
  /\ versions = disk.versions

\* C8: the destination never holds a half-written record: a step either leaves the
\* file at the cache path as it was or, in the rename, replaces it by the complete
\* record that was written to the temporary file and closed.
C8_AtomicSave ==
  [][\/ disk' = disk
     \/ /\ pc = "save_rename"
        /\ tmp = saveData /\ saveData.kind = "json"
        /\ saveData.versions = Marshal(saveData.timestamp, versions).versions
        /\ disk' = saveData]_vars

\* the process died while the temporary file held part of the data
C8_Witness == pc = "crashed" /\ tmp = PartialFile

\* the text of both templates before the first version, between the version and
\* a possible Edge token, and the text that introduces the Edge version
UAHead ==
  <<"M","o","z","i","l","l","a","/","5",".","0"," ","(","W","i","n","d","o","w","s"," ","N","T",
    " ","1","0",".","0",";"," ","W","i","n","6","4",";"," ","x","6","4",")"," ","A","p","p","l",
    "e","W","e","b","K","i","t","/","5","3","7",".","3","6"," ","(","K","H","T","M","L",","," ",
    "l","i","k","e"," ","G","e","c","k","o",")"," ","C","h","r","o","m","e","/">>
UATail ==
  <<" ","S","a","f","a","r","i","/","5","3","7",".","3","6">>
UAEdg ==
  <<" ","E","d","g","/">>

\* C9: on a non-empty version set every Get result is the Chrome template with one
\* version of the set in it, or the Edge template with one version of the set in both
\* of its slots, and Get leaves the version set as it was.
C9_GetResult ==
  [][(out' # out /\ out'.op = "Get" /\ Len(versions) > 0)
     => /\ versions' = versions
        /\ \E v \in Range(versions) :
             \/ out'.ua = UAHead \o v \o UATail
             \/ out'.ua = UAHead \o v \o UATail \o UAEdg \o v]_vars

\* Get has returned an Edge user agent
C9_Witness ==
  /\ out.op = "Get" /\ Len(versions) > 1
  /\ \E v \in Range(versions) : out.ua = UAHead \o v \o UATail \o UAEdg \o v

\* ---- C10 ----
refererFallback == <<"h","t","t","p","s",":","/","/","w","w","w",".","g","o","o","g","l","e",".","c","o","m">>
refererExample == <<"h","t","t","p","s",":","/","/","a","p","i",".","e","x","a","m","p","l","e",".","c","o","m">>
refererUpperPort == <<"h","t","t","p",":","/","/","E","x","a","m","p","l","e",".","c","o","m",":","8","0","8","0">>

MajorAfterChrome(ua) ==
  LET at == {k \in 1..Len(ua) : At(ua, k, chromeToken)} IN
  IF at = {} THEN <<>>
  ELSE SubSeq(ua, Least(at) + 7, RunEnd(ua, Least(at) + 7, Digit, TRUE))

\* the end of a sec-ch-ua value: the Chromium entry and the browser-brand entry
chromiumEntry ==
  <<","," ","\"","C","h","r","o","m","i","u","m","\"",";","v","=","\"">>
entryVersion ==
  <<"\"",";","v","=","\"">>
SecChUaTail(major, brand) ==
  chromiumEntry \o major \o <<"\"", ",", " ", "\"">> \o brand \o entryVersion \o major
    \o <<"\"">>

edge141UA ==
  <<"M","o","z","i","l","l","a","/","5",".","0"," ","(","W","i","n","d","o","w","s"," ","N","T",
    " ","1","0",".","0",";"," ","W","i","n","6","4",";"," ","x","6","4",")"," ","A","p","p","l",
    "e","W","e","b","K","i","t","/","5","3","7",".","3","6"," ","(","K","H","T","M","L",","," ",
    "l","i","k","e"," ","G","e","c","k","o",")"," ","C","h","r","o","m","e","/","1","4","1",".",
    "0",".","7","3","9","0",".","5","5"," ","S","a","f","a","r","i","/","5","3","7",".","3","6",
    " ","E","d","g","/","1","4","1",".","0",".","7","3","9","0",".","5","5">>
edge141Tail ==
  <<","," ","\"","C","h","r","o","m","i","u","m","\"",";","v","=","\"","1","4","1","\"",","," ",
    "\"","M","i","c","r","o","s","o","f","t"," ","E","d","g","e","\"",";","v","=","\"","1","4",
    "1","\"">>

\* C11: in every map GetHeaders returns, the Chromium entry and the browser-brand entry
\* of sec-ch-ua both carry the major version that follows "Chrome/" in the map's own
\* user-agent, and the brand is Microsoft Edge exactly when that user-agent contains
\* "Edg/" (Google Chrome otherwise).
C11_HeaderConsistency ==
  (out # NoOutput /\ out.op = "GetHeaders" /\ ~out.panic) =>
    LET ua == out.headers["user-agent"]
        secChUa == out.headers["sec-ch-ua"]
    IN /\ Contains(ua, edgToken)
            => HasSuffix(secChUa, SecChUaTail(MajorAfterChrome(ua), brandEdge))
       /\ ~Contains(ua, edgToken)
            => HasSuffix(secChUa, SecChUaTail(MajorAfterChrome(ua), brandChrome))
       /\ ua = edge141UA => HasSuffix(secChUa, edge141Tail)

\* GetHeaders has answered with the Edge user agent of version 141.0.7390.55
C11_Witness ==
  /\ out # NoOutput /\ out.op = "GetHeaders" /\ ~out.panic
  /\ out.headers["user-agent"] = edge141UA
  /\ HasSuffix(out.headers["sec-ch-ua"], edge141Tail)

\* ---- C12 ----
\* the number a decimal numeral denotes
RECURSIVE Atoi(_)
Atoi(s) ==
  IF s = <<>> THEN 0
  ELSE 10 * Atoi(SubSeq(s, 1, Len(s) - 1))
       + (CHOOSE k \in 0..9 : DigitChar[k + 1] = s[Len(s)])

\* value is a quoted decimal numeral of a number strictly between 0 and limit
QuotedBetween(value, limit) ==
  /\ Len(value) >= 3 /\ value[1] = "\"" /\ value[Len(value)] = "\""
  /\ \A k \in 2..(Len(value) - 1) : IsDigit(value[k])
  /\ Atoi(SubSeq(value, 2, Len(value) - 1)) > 0
  /\ Atoi(SubSeq(value, 2, Len(value) - 1)) < limit

\* C12: for every screen resolution of the catalog and every pair of subtractions
\* GetHeaders can draw, sec-ch-viewport-height is a number strictly positive and
\* strictly less than the height of the resolution, and sec-ch-viewport-width one
\* strictly positive and strictly less than its width.
C12_ViewportWithinScreen ==
  (out # NoOutput /\ out.op = "GetHeaders" /\ ~out.panic) =>
    /\ QuotedBetween(out.headers["sec-ch-viewport-height"], out.resolution.Height)
    /\ QuotedBetween(out.headers["sec-ch-viewport-width"], out.resolution.Width)

\* the smallest resolution was drawn with the largest subtractions: 720 - 188, 1280 - 128
C12_Witness ==
  /\ out # NoOutput /\ out.op = "GetHeaders" /\ ~out.panic
  /\ out.resolution = screenResolution(1280, 720)
  /\ out.headers["sec-ch-viewport-height"] = <<"\"", "5", "3", "2", "\"">>
  /\ out.headers["sec-ch-viewport-width"] = <<"\"", "1", "1", "5", "2", "\"">>

\* ---- C13 ----
googleBotHead ==
  <<"M","o","z","i","l","l","a","/","5",".","0"," ","A","p","p","l","e","W","e","b","K","i","t",
    "/","5","3","7",".","3","6"," ","(","K","H","T","M","L",","," ","l","i","k","e"," ","G","e",
    "c","k","o",";"," ","c","o","m","p","a","t","i","b","l","e",";"," ","G","o","o","g","l","e",
    "b","o","t","/","2",".","1",";"," ","+","h","t","t","p",":","/","/","w","w","w",".","g","o",
    "o","g","l","e",".","c","o","m","/","b","o","t",".","h","t","m","l",")"," ","C","h","r","o",
    "m","e","/">>
bingBotHead ==
  <<"M","o","z","i","l","l","a","/","5",".","0"," ","A","p","p","l","e","W","e","b","K","i","t",
    "/","5","3","7",".","3","6"," ","(","K","H","T","M","L",","," ","l","i","k","e"," ","G","e",
    "c","k","o",";"," ","c","o","m","p","a","t","i","b","l","e",";"," ","b","i","n","g","b","o",
    "t","/","2",".","0",";"," ","+","h","t","t","p",":","/","/","w","w","w",".","b","i","n","g",
    ".","c","o","m","/","b","i","n","g","b","o","t",".","h","t","m",")"," ","C","h","r","o","m",
    "e","/">>
yandexBotAgent ==
  <<"M","o","z","i","l","l","a","/","5",".","0"," ","(","c","o","m","p","a","t","i","b","l","e",
    ";"," ","Y","a","n","d","e","x","B","o","t","/","3",".","0",";"," ","+","h","t","t","p",":",
    "/","/","y","a","n","d","e","x",".","c","o","m","/","b","o","t","s",")">>
fromGooglebot ==
  <<"g","o","o","g","l","e","b","o","t","(","a","t",")","g","o","o","g","l","e",".","c","o","m">>

\* C13: GetCrawlerHeaders maps each crawler type to its template whatever the version
\* set holds: YandexBot gives the fixed Yandex user agent and no from key, GoogleBot the
\* Googlebot user agent with the first version of the set substituted and the from key,
\* BingBot the bingbot user agent with that version substituted and no from key.
C13_CrawlerTemplates ==
  (out # NoOutput /\ out.op = "GetCrawlerHeaders") =>
    LET h == out.headers IN
    /\ out.crawlerType = YandexBot
         => h["user-agent"] = yandexBotAgent /\ "from" \notin DOMAIN h
    /\ out.crawlerType = GoogleBot
         => /\ h["user-agent"] = googleBotHead \o versions[1] \o UATail
            /\ "from" \in DOMAIN h /\ h["from"] = fromGooglebot
    /\ out.crawlerType = BingBot
         => /\ h["user-agent"] = bingBotHead \o versions[1] \o UATail
            /\ "from" \notin DOMAIN h

\* the bingbot headers of a generator whose version set came from the Microsoft fetcher
C13_Witness ==
  /\ out # NoOutput /\ out.op = "GetCrawlerHeaders" /\ out.crawlerType = BingBot
  /\ installedBy = "microsoft"
  /\ out.headers["user-agent"] = bingBotHead \o versions[1] \o UATail

\* ---- C15 ----
\* C15: a crawler type outside GoogleBot, BingBot and YandexBot is not rejected: it
\* gets the result GoogleBot gets with the same version, the Googlebot user agent and
\* the from key.
C15_UnknownCrawlerIsGooglebot ==
  (out # NoOutput /\ out.op = "GetCrawlerHeaders"
     /\ out.crawlerType \notin {GoogleBot, BingBot, YandexBot}) =>
    /\ out.headers = GetCrawlerHeaders(versions, GoogleBot, now)
    /\ out.headers["user-agent"] = googleBotHead \o versions[1] \o UATail
    /\ "from" \in DOMAIN out.headers /\ out.headers["from"] = fromGooglebot

\* the crawler type 7 has been answered with the Googlebot headers
C15_Witness ==
  /\ out # NoOutput /\ out.op = "GetCrawlerHeaders" /\ out.crawlerType = 7
  /\ out.headers["from"] = fromGooglebot

\* ---- C16 ----
\* C16: GetVersions returns the elements of the version set in their order, and a later
\* write of the caller into the returned slice changes neither the generator's version
\* set nor what a call made before or after returns.
C16_DefensiveCopy ==
  [][/\ (out = NoOutput /\ out'.op = "GetVersions")
          => /\ Len(out'.versions) = Len(versions)
             /\ \A i \in 1..Len(versions) : out'.versions[i] = versions[i]
     /\ (held.op = "GetVersions" /\ held' # held /\ held' # NoOutput)
          => versions' = versions /\ out' = out
     /\ versions' \in HeaderVersionSets]_vars

\* after the caller wrote into a returned slice, GetVersions returned the version set
C16_Witness ==
  /\ held.op = "GetVersions" /\ "written" \in DOMAIN held
  /\ held.versions # versions
  /\ out.op = "GetVersions" /\ out.versions = versions

\* ---- C19 ----
HeaderCalls == {"GetHeaders", "GetCrawlerHeaders"}

\* C19: every map GetHeaders or GetCrawlerHeaders returns is new: it is no object an
\* earlier result refers to, and a caller that changes, deletes or adds a key in a map
\* it was returned changes neither the generator's state nor the map of another call.
C19_FreshMaps ==
  [][/\ (out = NoOutput /\ out'.op \in HeaderCalls)
          => ObjectOf(out') \in Objects \ {ObjectOf(held)}
     /\ (held.op \in HeaderCalls /\ held' # held /\ held' # NoOutput)
          => /\ out' = out
             /\ <<genVars, fileVars, configVars>>' = <<genVars, fileVars, configVars>>]_vars

\* the caller has edited a map it was returned and holds the map of a later call
C19_Witness ==
  /\ held.op \in HeaderCalls /\ "written" \in DOMAIN held
  /\ out.op = held.op
  /\ out.headers # held.headers
  /\ ObjectOf(out) # ObjectOf(held)

\* ---- C17 ----
\* s is a non-empty run of decimal digits
IsNumeral(s) == s # <<>> /\ \A k \in 1..Len(s) : IsDigit(s[k])

\* s is four non-negative decimal integers separated by dots
IsFourPartVersion(s) ==
  \E a, b, c \in 1..Len(s) :
    /\ a < b /\ b < c
    /\ s[a] = "." /\ s[b] = "." /\ s[c] = "."
    /\ IsNumeral(SubSeq(s, 1, a - 1)) /\ IsNumeral(SubSeq(s, a + 1, b - 1))
    /\ IsNumeral(SubSeq(s, b + 1, c - 1)) /\ IsNumeral(SubSeq(s, c + 1, Len(s)))

\* C17: for every date, before or after the anchor, approximateVersionForDate returns
\* four non-negative decimal integers separated by dots.
C17_ApproximationIsAVersion ==
  (out # NoOutput /\ out.op = "approximateVersionForDate") => IsFourPartVersion(out.version)


\* C14: once the library is initialized, the exported GetCrawlerHeaders returns a
\* negative code exactly when crawlerType is outside 0..2; the code is then
\* ErrUnknownCrawler, the generator was not asked for headers and the buffer is as the
\* caller passed it; for 0, 1 and 2 the generator is asked and the code is not negative.
C14_UnknownCrawlerRejected ==
  (out.op = "C.GetCrawlerHeaders" /\ globalGenerator) =>
    /\ out.returned
    /\ (out.code < 0) <=> (out.arg \notin 0..2)
    /\ out.arg \notin 0..2 =>
         out.code = ErrUnknownCrawler /\ ~out.generated /\ buffer = Untouched
    /\ out.arg \in 0..2 => out.code # ErrUnknownCrawler /\ out.generated

\* the initialized library was passed the crawler type 3 and returned ErrUnknownCrawler
C14_Witness ==
  /\ out.op = "C.GetCrawlerHeaders" /\ globalGenerator
  /\ out.arg = 3 /\ out.code = ErrUnknownCrawler /\ buffer = Untouched

ExportedCalls == {"C.GetRandomUA", "C.GetHeaders", "C.GetCrawlerHeaders"}

\* C18: an exported call made while no generator has been constructed returns
\* ErrNotInitialized, asks no generator and leaves the buffer as the caller passed it;
\* once Initialize has succeeded, a generator is there and no exported call returns
\* ErrNotInitialized.
C18_NotInitialized ==
  /\ out.op \in ExportedCalls /\ ~globalGenerator =>
       /\ out.returned /\ out.code = ErrNotInitialized
       /\ ~out.generated /\ buffer = Untouched
  /\ initOnce = "done" /\ ~initErr =>
       /\ globalGenerator
       /\ out.op \in ExportedCalls => ~(out.returned /\ out.code = ErrNotInitialized)

\* GetHeaders was called while Initialize was still constructing the generator
C18_Witness ==
  /\ out.op = "C.GetHeaders" /\ initOnce = "running" /\ pc = "select"
  /\ out.code = ErrNotInitialized /\ buffer = Untouched



\* the positions of NewGenerator between g.mu.Lock() and g.mu.Unlock()
InAssignment == pc \in {"assign", "unlock"}
\* thread t is between its RLock and its RUnlock
InSection(t) == threads[t].pc \in {"locked", "read"}
HoldersShared ==
  Cardinality({t \in Threads : InSection(t)})
  + (IF pc \in {"save_read", "save_runlock"} THEN 1 ELSE 0)

\* C20: g.versions is written only while g.mu is held exclusively and read only while
\* the reader holds it shared; the exclusive lock is held from Lock to Unlock around the
\* one assignment and by nobody while a file or the network is used; no reader is
\* inside while it is held, and what a reader has read is the installed version set.
C20_LockDiscipline ==
  /\ lastStep.kind = "write" => mu.writer /\ mu.readers = 0
  /\ lastStep.kind = "read" =>
       /\ mu.readers > 0 /\ ~mu.writer
       /\ IF lastStep.by = Constructor THEN pc = "save_runlock"
          ELSE threads[lastStep.by].pc = "read"
  /\ lastStep.kind = "io" => ~mu.writer
  /\ mu.writer <=> InAssignment
  /\ mu.readers = HoldersShared
  /\ \A t \in Threads :
       threads[t].pc = "read" =>
         /\ Len(versions) > 0
         /\ threads[t].seen = IF threads[t].op = "GetCrawlerHeaders"
                              THEN SubSeq(versions, 1, 1) ELSE versions

\* two callers read g.versions under the shared lock at once, on a generator whose
\* version set was installed under the exclusive lock after the network was used
C20_Witness ==
  /\ installedBy \in {"google", "microsoft", "alldone", "timeout"}
  /\ mu = [writer |-> FALSE, readers |-> 2]
  /\ threads[1].pc = "read" /\ threads[2].pc = "read"
  /\ lastStep.kind = "read"

\* the positions of NewGenerator inside saveToDiskCache
SavePositions == {"save", "save_write", "save_close", "save_rename"}
\* what updateVersions can have installed
Acquired == {"google", "microsoft", "alldone", "timeout"}

\* C21: NewGenerator goes from its start to the cache load only when the cache is
\* enabled and to updateVersions otherwise; updateVersions follows a cache load only when
\* that load returned false; saveToDiskCache is entered only from updateVersions, with
\* the cache enabled and a version set installed by updateVersions; a cache hit returns
\* at once, and from then on no fetcher is started and the cache file stays as it was.
C21_StrictOrder ==
  [][ /\ (pc = "start" /\ pc' # pc) =>
           IF cacheOn THEN pc' \in {"done", "update"} ELSE pc' = "select"
      /\ (pc' = "update" /\ pc # "update") =>
           pc = "start" /\ cacheOn /\ installedBy' = "none" /\ versions' = <<>>
      /\ (pc' = "select" /\ pc # "select") =>
           (pc = "start" /\ ~cacheOn) \/ pc = "update"
      /\ (pc' \in SavePositions /\ pc \notin SavePositions) =>
           /\ pc = "select" /\ pc' = "save" /\ cacheOn
           /\ installedBy' \in Acquired /\ versions' # <<>>
      /\ (pc = "start" /\ pc' = "done") =>
           installedBy' = "cache" /\ ret' = "ok" /\ disk' = disk /\ ctx' = "none"
      /\ (installedBy = "cache" /\ run' = run) =>
           /\ installedBy' = "cache" /\ disk' = disk /\ saved' = saved
           /\ gpc' = "idle" /\ mpc' = "idle" /\ ctx' = "none"
    ]_vars

\* the cache was enabled, the load returned false, updateVersions installed what a
\* fetcher delivered and NewGenerator is about to save it
C21_Witness ==
  /\ run = 1 /\ cacheOn /\ pc = "save"
  /\ installedBy \in {"google", "microsoft"} /\ versions # <<>>
  /\ ~saved.done

\* the complete outputs of the two fetchers
GoogleOutputs == { r.versions : r \in { x \in GoogleResults : ~x.err } }
MicrosoftOutputs == { r.versions : r \in { x \in MSResults : ~x.err } }
\* the approximation lists of the instants the clock has passed
Approximations == { approximateVersions(now - k * TickHours) : k \in 0..ticks }

\* the version set is whole: nothing before the installation, then all of one source
WholeVersionSet ==
  CASE installedBy = "none" -> versions = <<>>
    [] installedBy = "cache" -> ~Unmarshal(disk).err /\ versions = Unmarshal(disk).Versions
    [] installedBy = "google" -> versions \in GoogleOutputs
    [] installedBy = "microsoft" -> versions \in MicrosoftOutputs
    [] installedBy \in {"alldone", "timeout"} -> versions \in Approximations

\* C22: g.versions is empty until it is installed and then equal to the versions of the
\* loaded cache record, to the output of one fetcher or to the approximation list; it is
\* assigned once in a construction, by the cache load or by the select of
\* updateVersions, and no later step of that construction (a fetcher that ends or sends
\* afterwards included) changes it.
C22_InstalledOnceAndWhole ==
  /\ []WholeVersionSet
  /\ [][ (versions' # versions \/ installedBy' # installedBy) =>
           \/ /\ versions = <<>> /\ installedBy = "none" /\ pc \in {"start", "select"}
              /\ installedBy' # "none" /\ versions' # <<>>
           \/ run' = run + 1 /\ versions' = <<>> /\ installedBy' = "none"
       ]_vars

\* the output of the Google fetcher is installed and NewGenerator has returned, while the
\* output of the Microsoft fetcher lies in the channel and is never received
C22_Witness ==
  /\ pc = "done" /\ installedBy = "google"
  /\ resultsChan # <<>> /\ Head(resultsChan).source = "microsoft"
  /\ Head(resultsChan).versions # versions
  /\ mpc = "done"

\* C23: once updateVersions waits in its select it returns, whatever the fetchers do:
\* the timer of the shared context is enough.
C23_UpdateVersionsReturns == (pc = "select") ~> (pc \in {"save", "done"})

\* updateVersions returned on the deadline while both requests were still running
C23_Witness ==
  /\ pc = "done" /\ ret = "ok" /\ installedBy = "timeout"
  /\ gpc = "fetch" /\ mpc = "fetch" /\ ~allNetworkDone

\* after the return of updateVersions
UpdateReturned == installedBy \in Acquired /\ pc \in SavePositions \cup {"done"}
\* the two fetcher goroutines and the watcher have ended
GoroutinesEnded == gpc = "done" /\ mpc = "done" /\ wg = 0 /\ allNetworkDone

\* C24: a fetcher that is about to send always finds a free slot in the channel, and
\* after updateVersions has returned the two fetcher goroutines and the watcher end.
C24_GoroutinesEnd ==
  /\ []((gpc = "send" \/ mpc = "send") => Len(resultsChan) < 2)
  /\ UpdateReturned ~> GoroutinesEnded

\* updateVersions has returned on the deadline; the output of the Microsoft fetcher lies
\* in the channel, the Google fetcher has a result to send and nobody will receive it
C24_Witness ==
  /\ pc = "done" /\ installedBy = "timeout"
  /\ Len(resultsChan) = 1 /\ Head(resultsChan).source = "microsoft"
  /\ gpc = "send" /\ ~allNetworkDone

\* the version GetCrawlerHeaders is to substitute
HeadOrApproximation ==
  IF versions = <<>> THEN approximateVersionForDate(now) ELSE versions[1]

\* C25: GetCrawlerHeaders reads the head of g.versions while it holds the shared lock,
\* has released the lock before it builds the headers, and returns the Googlebot or
\* bingbot user agent with that head substituted, or with approximateVersionForDate(now)
\* when g.versions is empty; the exclusive lock is never held while a caller can call, so
\* RLock does not wait.
C25_CrawlerHeadOfSet ==
  /\ ~mu.writer
  /\ mu.readers = Cardinality({t \in Threads : InSection(t)})
  /\ \A t \in Threads :
       threads[t].op = "GetCrawlerHeaders" =>
         /\ threads[t].pc = "read" =>
              threads[t].seen = IF versions = <<>> THEN <<>> ELSE <<versions[1]>>
         /\ threads[t].pc \in {"locked", "read", "build"} => threads[t].result = <<>>
         /\ threads[t].pc = "returned" =>
              threads[t].result["user-agent"] =
                CASE threads[t].arg = BingBot -> bingBotHead \o HeadOrApproximation \o UATail
                  [] threads[t].arg = YandexBot -> yandexBotAgent
                  [] OTHER -> googleBotHead \o HeadOrApproximation \o UATail

\* on a generator without versions one caller has its bingbot headers, built from the
\* approximation, while another caller is still inside its shared section
C25_Witness ==
  /\ ZeroValue
  /\ threads[1].pc = "returned" /\ threads[1].arg = BingBot
  /\ threads[1].result["user-agent"] = bingBotHead \o approximateVersionForDate(now) \o UATail
  /\ threads[2].pc = "read" /\ mu.readers = 1

\* the entries of a page whose date parses, and the versions they name
Dated(page) == { i \in 1..Len(page) : page[i].dateOK }
PageVersions(page) == { msVersionOf(page[i].filename) : i \in Dated(page) }
\* the date of the most recent entry of version v
Newest(page, v) ==
  CHOOSE d \in { page[i].date : i \in { j \in Dated(page) : msVersionOf(page[j].filename) = v } } :
    \A i \in Dated(page) : msVersionOf(page[i].filename) = v => page[i].date <= d

\* C26: fetchMicrosoftVersions fails on a page without matches or without a date that
\* parses; what it returns without an error is a list of 1 to versionsToKeepFromMS
\* versions of dated entries of the page, none twice, in the order of their most recent
\* dates, newest first, and no version of the page that is left out is newer than one
\* that is returned.
C26_MicrosoftVersions ==
  out.op = "fetchMicrosoftVersions" =>
    LET page == out.response.matches
        vs == out.result.versions
    IN /\ (Len(page) = 0 \/ Dated(page) = {}) => out.result.err
       /\ ~out.result.err =>
            /\ Len(vs) \in 1..versionsToKeepFromMS
            /\ \A k \in 1..Len(vs) : vs[k] \in PageVersions(page)
            /\ \A k, l \in 1..Len(vs) : k # l => vs[k] # vs[l]
            /\ \A k, l \in 1..Len(vs) : k < l => Newest(page, vs[k]) >= Newest(page, vs[l])
            /\ \A w \in PageVersions(page) \ Range(vs) :
                 \A k \in 1..Len(vs) : Newest(page, w) <= Newest(page, vs[k])

\* a page with more versions than are kept, entries that repeat a version and dates out
\* of order: versionsToKeepFromMS versions are returned and others are left out
C26_Witness ==
  /\ out.op = "fetchMicrosoftVersions" /\ ~out.result.err
  /\ Len(out.result.versions) = versionsToKeepFromMS
  /\ Cardinality(PageVersions(out.response.matches)) > versionsToKeepFromMS
  /\ Len(out.response.matches) > Cardinality(PageVersions(out.response.matches))

InitializeReturned == { t \in Threads : calls[t].op = "Initialize" /\ calls[t].pc = "returned" }

\* C28: however often and from however many threads Initialize is called, NewGenerator
\* is called and the log processor started at most once; a call of Initialize returns
\* only when that one initialization is over; all calls return one code, ErrSuccess or
\* ErrInitialization; and the generator is configured with the arguments of the call that
\* ran the initialization, the arguments of the others changing nothing.
C28_InitializeOnce ==
  /\ [](/\ tally.constructed <= 1 /\ tally.started <= 1
        /\ processorWG <= 1
        /\ \A t \in InitializeReturned :
             /\ initOnce = "done" /\ pc = "done"
             /\ globalGenerator = (ret = "ok")
             /\ calls[t].code \in {ErrSuccess, ErrInitialization}
        /\ Cardinality(tally.codes) <= 1
        /\ initOnce # "idle" =>
             /\ cacheOn = tally.first.useCache
             /\ ttl = (IF tally.first.useCache THEN tally.first.cacheTTLDays * 24 ELSE 0))
  /\ [][initOnce # "idle" => (UNCHANGED <<cacheOn, ttl>> /\ initOnce' # "idle")]_vars

\* two calls with different arguments, one that ran the initialization and one that
\* waited for it, have both returned
C28_Witness ==
  /\ InitializeReturned = Threads
  /\ calls[1].useCache # calls[2].useCache
  /\ tally.first \in {[calls[t] EXCEPT !.pc = "once", !.code = 0] : t \in Threads}

\* C29: when Shutdown has returned, logging is disabled, the goroutine of the log
\* processor has ended, no message that was accepted before logging was disabled is left
\* in logChannel, and the callback is not invoked from then on; a later call of Shutdown
\* changes nothing.
C29_ShutdownDrains ==
  /\ [](shutdownOnce = "done" =>
          /\ loggingDisabled
          /\ processor.pc = "ended" /\ processorWG = 0
          /\ \A i \in 1..Len(logChannel) : logChannel[i].late
          /\ ~tally.late)
  /\ [][shutdownOnce = "done" =>
          UNCHANGED <<shutdownOnce, loggingDisabled, stopLogs, processorWG, processor>>]_vars

\* the calls of Handle that are between the load of loggingDisabled and the select
Sending == { t \in Threads : calls[t].op = "Handle" /\ calls[t].pc = "send" }
\* the records whose Handle has gone through its select are in logChannel or were, or
\* were counted in droppedLogs; the select of a call is ready whatever logChannel holds
Accounted ==
  /\ tally.handled = tally.enqueued + droppedLogs
  /\ tally.begun = tally.handled + Cardinality(Sending)
  /\ Len(logChannel) <= logChannelCap
  /\ droppedLogs > 0 => tally.enqueued >= logChannelCap
  /\ \A t \in Sending : ENABLED HandleSend(t)
\* a step of a select sends the record, or drops and counts it when logChannel is full
SendsOrDrops ==
  \A t \in Sending : calls'[t].pc = "returned" =>
    \/ /\ Len(logChannel) < logChannelCap
       /\ logChannel' = Append(logChannel, [id |-> calls[t].msg, late |-> loggingDisabled])
       /\ droppedLogs' = droppedLogs
    \/ /\ Len(logChannel) = logChannelCap
       /\ logChannel' = logChannel
       /\ droppedLogs' = droppedLogs + 1

\* C30, as stated: Handle does not block, a record passed to it while logging is enabled
\* is sent to logChannel or, when that holds logChannelCap messages, dropped and counted
\* once in droppedLogs, so that handled = enqueued + droppedLogs; and from the moment
\* loggingDisabled is set no message is sent and droppedLogs does not change.
C30_NothingAfterDisabled ==
  /\ []Accounted
  /\ [][SendsOrDrops]_vars
  /\ [][loggingDisabled =>
          (tally'.enqueued = tally.enqueued /\ droppedLogs' = droppedLogs)]_vars

\* C30, amended: as above, but it is the calls of Handle that load loggingDisabled after
\* it was set that send nothing and leave droppedLogs alone; a call that loaded it before
\* goes on to its select and sends or drops its record although logging is disabled by
\* then.
C30_HandlerAccounting ==
  /\ []Accounted
  /\ [][SendsOrDrops]_vars
  /\ [][\A t \in Threads :
          (loggingDisabled /\ calls[t] = NoCall /\ calls'[t].op = "Handle") =>
             /\ calls'[t].pc = "returned"
             /\ UNCHANGED <<logChannel, droppedLogs, tally>>]_vars
  /\ [][(tally'.enqueued # tally.enqueued \/ droppedLogs' # droppedLogs) =>
          \E t \in Sending : calls'[t].pc = "returned"]_vars

\* logChannel is full, a record was dropped, a message was sent by a call that had found
\* logging enabled after Shutdown disabled it, and a call made after that has returned
C30_Witness ==
  /\ Len(logChannel) = logChannelCap
  /\ droppedLogs = 1
  /\ loggingDisabled
  /\ \E i \in 1..Len(logChannel) : logChannel[i].late
  /\ \E t \in Threads : calls[t].op = "Handle" /\ calls[t].pc = "returned" /\ calls[t].msg = 0

\* C31: every result of Get has one version in the slot after "Chrome/": on an empty
\* version set it is the Chrome template with one of the approximated versions, on a
\* non-empty one the Chrome or the Edge template with one version of the set.
C31_GetOneVersion ==
  [][(out' # out /\ out'.op = "Get") =>
       IF Len(versions) = 0
       THEN \E v \in Range(approximateVersions(now)) : out'.ua = UAHead \o v \o UATail
       ELSE \E v \in Range(versions) :
              \/ out'.ua = UAHead \o v \o UATail
              \/ out'.ua = UAHead \o v \o UATail \o UAEdg \o v]_vars

\* os.Rename puts the temporary file of saveToDiskCache at the cache path in this step
Renames == pc = "save_rename" /\ disk' = tmp
\* what supplied the version set on a cache miss
Acquisitions == {"google", "microsoft", "alldone", "timeout"}
\* a record is stamped with the time at which saveToDiskCache builds it, and a generator
\* that loaded its version set from the cache has started no fetcher
StampedAndQuiet ==
  /\ [][(pc = "save" /\ pc' = "save_write") =>
          (saveData'.kind = "json" /\ saveData'.timestamp = now)]_vars
  /\ [](installedBy = "cache" => (gpc = "idle" /\ mpc = "idle" /\ ctx = "none" /\ wg = 0))

\* C32, as stated: after a cache miss and a save that succeeds the file holds the installed
\* version set, fetched or approximated, and the time of the save; a generator constructed
\* on the same path within the TTL loads that same set and starts no fetcher.
C32_CacheHoldsInstalledExact ==
  /\ StampedAndQuiet
  /\ [][Renames =>
          /\ installedBy \in Acquisitions
          /\ disk'.kind = "json"
          /\ disk'.timestamp = saveData.timestamp
          /\ disk'.versions = versions]_vars
  /\ [][(Loads /\ saved.done /\ now - saved.timestamp <= ttl) =>
          /\ pc' = "done" /\ installedBy' = "cache"
          /\ versions' = saved.versions]_vars

\* C32, amended: the file holds the installed version set with every byte that is not
\* valid UTF-8 replaced by U+FFFD, and that is the set the next generator loads.
C32_CacheHoldsInstalled ==
  /\ StampedAndQuiet
  /\ [][Renames =>
          /\ installedBy \in Acquisitions
          /\ disk'.kind = "json"
          /\ disk'.timestamp = saveData.timestamp
          /\ Len(disk'.versions) = Len(versions)
          /\ \A i \in 1..Len(versions) : ReadsBackAs(versions[i], disk'.versions[i])]_vars
  /\ [][(Loads /\ saved.done /\ now - saved.timestamp <= ttl) =>
          /\ pc' = "done" /\ installedBy' = "cache"
          /\ versions' = disk.versions
          /\ Len(versions') = Len(saved.versions)
          /\ \A i \in 1..Len(saved.versions) : ReadsBackAs(saved.versions[i], versions'[i])]_vars

\* the first generator saved the approximation; the second has loaded it a day later
C32_Witness ==
  /\ run = 2 /\ pc = "done" /\ installedBy = "cache" /\ ticks > 0
  /\ saved.done /\ saved.versions = approximateVersions(saved.timestamp)
  /\ versions = saved.versions /\ disk.timestamp = saved.timestamp

\* C33: the context of updateVersions gets the Timeout of the generator's HTTP client as
\* its time limit: with a Timeout of zero it is done by the time the coordinator is at
\* its select, with a positive one it is not done before the deadline passes; whichever
\* case the select takes, updateVersions returns nil and leaves a non-empty version
\* set, and the case of the context installs the approximation.
C33_DeadlineIsClientTimeout ==
  /\ [][(pc # "select" /\ pc' = "select") =>
          /\ timeout = 0 => ctx' = "done"
          /\ timeout > 0 => ctx' = "active"]_vars
  /\ []((timeout = 0 /\ pc = "select") => ctx = "done")
  /\ [][Selects =>
          /\ ret' # "error" /\ pc' \in {"save", "done"}
          /\ Len(versions') > 0
          /\ installedBy' = "timeout" => (ctx = "done" /\ versions' = approximateVersions(now))]_vars

\* with a Timeout of zero the approximation was installed by the case of the context
\* while both fetchers were still under way, and NewGenerator has returned the generator
C33_Witness ==
  /\ timeout = 0 /\ installedBy = "timeout"
  /\ gpc = "fetch" /\ mpc = "fetch" /\ resultsChan = <<>> /\ ~allNetworkDone
  /\ pc = "done" /\ ret = "ok"
  /\ versions = approximateVersions(now)

\* ---- C34 ----
\* "Not A Brand" with c1 and c2 in the place of its two spaces
GreaseBrand(c1, c2) == <<"N","o","t">> \o <<c1>> \o <<"A">> \o <<c2>> \o <<"B","r","a","n","d">>
brandChromium == <<"C","h","r","o","m","i","u","m">>
GreaseVersionSet == {<<"8">>, <<"2","4">>, <<"9","9">>}
\* a sec-ch-ua value of three quoted entries, the first with the brand "Not A Brand"
\* whose spaces are replaced by c1 and c2
SecChUaOf(c1, c2, gv, major, brand) ==
  <<"\"">> \o GreaseBrand(c1, c2) \o entryVersion \o gv \o <<"\"">> \o SecChUaTail(major, brand)

\* C34: the sec-ch-ua value of every map GetHeaders returns is three quoted
\* brand;v=version entries in the order GREASE, Chromium, browser brand; the GREASE
\* brand is "Not A Brand" with each space replaced by one character of greaseChars, it
\* holds no double quote and is none of the real brands, and its version is 8, 24 or 99.
C34_SecChUaWellFormed ==
  (out # NoOutput /\ out.op = "GetHeaders" /\ ~out.panic) =>
    \E c1 \in Range(greaseChars), c2 \in Range(greaseChars), gv \in GreaseVersionSet,
       brand \in {brandChrome, brandEdge} :
      LET major == MajorAfterChrome(out.headers["user-agent"]) IN
      /\ out.headers["sec-ch-ua"] = SecChUaOf(c1, c2, gv, major, brand)
      /\ Range(major) \subseteq Digit
      /\ "\"" \notin Range(GreaseBrand(c1, c2))
      /\ GreaseBrand(c1, c2) \notin {brandChrome, brandEdge, brandChromium}

==============================================================================
